---- MODULE Spec2Model ----
(***************************************************************************)
(* A model of prapti's language server text inserter:                      *)
(*   observable_lsp.py  change normalisation (minimal contiguous diff)     *)
(*   inserter.py        cursor tracking and the insertion driver           *)
(*   prapti_run.py      the run that owns generator, queue and inserter    *)
(* Texts are sequences of characters; a character is a string naming it.   *)
(* Python indices are 0-based: Slice(s, lo, hi) is s[lo:hi].               *)
(***************************************************************************)
EXTENDS Integers, Sequences, FiniteSets, TLC

\* ------------------------------------------------------------ characters
LF == "LF"
CR == "CR"
CURSOR_CHAR == "CURSOR"
\* a character beyond the basic multilingual plane: two UTF-16 code units
WIDE == "WIDE"

\* an optional value: None, or Some(v) holding v = The(Some(v))
None == {}
Some(v) == {v}
The(o) == CHOOSE v \in o : TRUE

\* ------------------------------------------------------------ bounds
MaxDiffLen == 4
MaxEventTextLen == 2
\* fragments the generator yields in one run
MaxFragments == 2
\* edits the user makes during one run
MaxClientEdits == 1
\* applyEdit requests the client refuses although the version matches
MaxRejects == 1
\* length of the documents a single transaction is folded on
MaxFoldLen == 3
\* runPrapti and stopPrapti commands the client issues
MaxCommands == 4
\* length of the documents a run is started on
MaxStartLen == 4
\* items on the queue when the driver looks at it
MaxQueued == 2

\* ------------------------------------------------------------ python helpers
Min(x, y) == IF x <= y THEN x ELSE y
Max(x, y) == IF x >= y THEN x ELSE y
SetMax(S) == CHOOSE x \in S : \A y \in S : y <= x
SetMin(S) == CHOOSE x \in S : \A y \in S : x <= y

\* s[lo:hi] for 0 <= lo
Slice(s, lo, hi) == SubSeq(s, lo + 1, Min(hi, Len(s)))
\* s[lo:]
SliceFrom(s, lo) == SubSeq(s, lo + 1, Len(s))
\* s.count(ch, lo, hi)
count(s, ch, lo, hi) == Cardinality({i \in (lo + 1)..Min(hi, Len(s)) : s[i] = ch})
count_all(s, ch) == count(s, ch, 0, Len(s))
startswith(s, prefix) == Len(prefix) <= Len(s) /\ SubSeq(s, 1, Len(prefix)) = prefix
endswith(s, suffix) ==
    Len(suffix) <= Len(s) /\ SubSeq(s, Len(s) - Len(suffix) + 1, Len(s)) = suffix
\* s.startswith(prefix, at)
startswith_at(s, prefix, at) ==
    at + Len(prefix) <= Len(s) /\ SubSeq(s, at + 1, at + Len(prefix)) = prefix
\* s.rsplit("\n", 1)[-1]
last_line_of(s) ==
    LET lfs == {i \in 1..Len(s) : s[i] = LF}
    IN  IF lfs = {} THEN s ELSE SubSeq(s, SetMax(lfs) + 1, Len(s))
\* all texts over an alphabet, up to a length
TextsUpTo(alphabet, n) == UNION {[1..k -> alphabet] : k \in 0..n}

\* ------------------------------------------------------------ position codec
\* PositionCodec.client_num_units: UTF-16 code units of a python string
client_num_units(s) == Len(s) + Cardinality({i \in 1..Len(s) : s[i] = WIDE})

Position(l, c) == [line |-> l, character |-> c]
Range(s, e) == [start |-> s, end |-> e]
PosLE(p, q) == p.line < q.line \/ (p.line = q.line /\ p.character <= q.character)
PosLT(p, q) == p.line < q.line \/ (p.line = q.line /\ p.character < q.character)

client_pos_from_index(s, index) ==
    LET lfs == {i \in 1..Min(index, Len(s)) : s[i] = LF}
        line_start == IF lfs = {} THEN 0 ELSE SetMax(lfs)
    IN  Position(Cardinality(lfs), client_num_units(Slice(s, line_start, index)))

\* TextDocument.lines: str.splitlines(True); the 0-based index of the first
\* character of every line ("\r\n" is one terminator, a lone "\r" is one too)
LineStarts(s) ==
    IF Len(s) = 0 THEN {}
    ELSE {0} \cup {i \in 1..(Len(s) - 1) :
                      \/ s[i] = LF
                      \/ (s[i] = CR /\ s[i + 1] # LF)}
LineCount(s) == Cardinality(LineStarts(s))
LineStart(s, k) == CHOOSE i \in LineStarts(s) : Cardinality({j \in LineStarts(s) : j < i}) = k
LineEnd(s, k) == IF k + 1 < LineCount(s) THEN LineStart(s, k + 1) ELSE Len(s)
Line(s, k) == Slice(s, LineStart(s, k), LineEnd(s, k))

\* _line.replace("\r\n", "\n") of one line (a line holds at most one terminator)
replace_crlf(line) ==
    IF Len(line) >= 2 /\ line[Len(line) - 1] = CR /\ line[Len(line)] = LF
    THEN SubSeq(line, 1, Len(line) - 2) \o <<LF>>
    ELSE line

\* PositionCodec.position_from_client_units: the python (line, column) of a
\* client position; positions past the text are clamped
position_from_client_units(s, pos) ==
    IF LineCount(s) = 0 THEN Position(0, 0)
    ELSE IF pos.line >= LineCount(s)
    THEN Position(LineCount(s) - 1, client_num_units(Line(s, LineCount(s) - 1)))
    ELSE LET l == replace_crlf(Line(s, pos.line))
         IN  IF client_num_units(l) = 0 THEN Position(pos.line, 0)
             ELSE IF pos.character > client_num_units(l)
             THEN Position(pos.line, Len(l) - 1)
             ELSE LET reached == {k \in 0..Len(l) :
                                     client_num_units(SubSeq(l, 1, k)) >= pos.character}
                  IN  Position(pos.line, SetMin(reached))

\* the flat index of a python (line, column): line[:column] clamps the column
FlatIndex(s, py) ==
    IF LineCount(s) = 0 THEN 0
    ELSE LineStart(s, py.line) + Min(py.character, Len(Line(s, py.line)))

ClientIndex(s, pos) == FlatIndex(s, position_from_client_units(s, pos))

\* ------------------------------------------------------------ change events
\* TextDocumentContentChangeEvent_Type1 (ranged) and _Type2 (whole document)
Type1(range, text) == [type |-> 1, range |-> range, text |-> text]
Type2(text) == [type |-> 2, text |-> text]

\* TextDocument.apply_change
apply_change(s, change) ==
    IF change.type = 2 THEN change.text
    ELSE LET st == position_from_client_units(s, change.range.start)
             en == position_from_client_units(s, change.range.end)
         IN  IF LineCount(s) = 0 THEN s \o change.text
             ELSE IF en.line < st.line THEN s
             ELSE Slice(s, 0, FlatIndex(s, st)) \o change.text
                      \o SliceFrom(s, FlatIndex(s, en))

\* ------------------------------------------------------------ observable_lsp.py
AssertionError == "AssertionError"

\* _minimal_contiguous_difference with the suffix test taken before the prefix
\* test when b is the shorter text
_minimal_contiguous_difference_suffix_first(a, b) ==
    LET len_a == Len(a)
        len_b == Len(b)
        min_len == Min(len_a, len_b)
        forwards == {i \in 0..(min_len - 1) : a[i + 1] # b[i + 1]}
        backwards == {j \in 1..min_len : a[len_a - j + 1] # b[len_b - j + 1]}
        general ==
            IF forwards = {} \/ backwards = {} THEN AssertionError
            ELSE << <<SetMin(forwards), len_a - SetMin(backwards) + 1>>,
                    <<SetMin(forwards), len_b - SetMin(backwards) + 1>> >>
    IN  IF len_a = 0
        THEN IF len_b = 0 THEN << <<0, 0>>, <<0, 0>> >>
             ELSE << <<0, 0>>, <<0, len_b>> >>
        ELSE IF len_b = 0 THEN << <<0, len_a>>, <<0, 0>> >>
        ELSE IF len_a < len_b
        THEN IF startswith(b, a) THEN << <<len_a, len_a>>, <<len_a, len_b>> >>
             ELSE IF endswith(b, a) THEN << <<0, 0>>, <<0, len_b - len_a>> >>
             ELSE general
        ELSE IF len_b < len_a
        THEN IF endswith(a, b) THEN << <<0, len_a - len_b>>, <<0, 0>> >>
             ELSE IF startswith(a, b) THEN << <<len_b, len_a>>, <<len_b, len_b>> >>
             ELSE general
        ELSE IF a = b THEN << <<0, 0>>, <<0, 0>> >>
        ELSE general

\* -> <<(astart, aend), (bstart, bend)>>
_minimal_contiguous_difference(a, b) ==
    LET len_a == Len(a)
        len_b == Len(b)
        min_len == Min(len_a, len_b)
        forwards == {i \in 0..(min_len - 1) : a[i + 1] # b[i + 1]}
        backwards == {j \in 1..min_len : a[len_a - j + 1] # b[len_b - j + 1]}
        general ==
            IF forwards = {} \/ backwards = {} THEN AssertionError
            ELSE LET forwards_first_differing_index == SetMin(forwards)
                     j == SetMin(backwards)
                 IN  << <<forwards_first_differing_index, len_a - j + 1>>,
                        <<forwards_first_differing_index, len_b - j + 1>> >>
    IN  IF len_a = 0
        THEN IF len_b = 0 THEN << <<0, 0>>, <<0, 0>> >>
             ELSE << <<0, 0>>, <<0, len_b>> >>
        ELSE IF len_b = 0 THEN << <<0, len_a>>, <<0, 0>> >>
        ELSE IF len_a < len_b
        THEN IF startswith(b, a) THEN << <<len_a, len_a>>, <<len_a, len_b>> >>
             ELSE IF endswith(b, a) THEN << <<0, 0>>, <<0, len_b - len_a>> >>
             ELSE general
        ELSE IF len_b < len_a
        THEN IF startswith(a, b) THEN << <<len_b, len_a>>, <<len_b, len_b>> >>
             ELSE IF endswith(a, b) THEN << <<0, len_a - len_b>>, <<0, 0>> >>
             ELSE general
        ELSE IF a = b THEN << <<0, 0>>, <<0, 0>> >>
        ELSE general

\* the checked version: its assertions are caught and logged, the result of
\* _minimal_contiguous_difference is returned as it is
minimal_contiguous_difference(a, b) == _minimal_contiguous_difference(a, b)

\* the postconditions minimal_contiguous_difference asserts of a result
difference_postconditions(a, b, result) ==
    LET a_pre == Slice(a, 0, result[1][1])
        a_diff == Slice(a, result[1][1], result[1][2])
        a_post == SliceFrom(a, result[1][2])
        b_pre == Slice(b, 0, result[2][1])
        b_diff == Slice(b, result[2][1], result[2][2])
        b_post == SliceFrom(b, result[2][2])
    IN  /\ a_pre = b_pre
        /\ a_post = b_post
        /\ (a_diff # b_diff \/ (a_diff = <<>> /\ b_diff = <<>>))
        /\ a_pre \o b_diff \o a_post = b
        /\ b_pre \o a_diff \o b_post = a
        /\ (Len(a_diff) > 0 /\ Len(b_diff) > 0) =>
               /\ a_diff[1] # b_diff[1]
               /\ a_diff[Len(a_diff)] # b_diff[Len(b_diff)]
        /\ LET result_ == _minimal_contiguous_difference(b, a)
           IN  result = <<result_[2], result_[1]>>

\* the change event recorded as the client sent it
compute_minimal_change_event_as_received(original_change_event, from_text, to_text) ==
    [original_change_event |-> original_change_event,
     from_text |-> from_text, to_text |-> to_text,
     minimal_change_event |-> original_change_event]

\* TextDocumentContentChangeDetails, minimal_change_event filled in
compute_minimal_change_event(original_change_event, from_text, to_text) ==
    LET details(minimal) ==
            [original_change_event |-> original_change_event,
             from_text |-> from_text, to_text |-> to_text,
             minimal_change_event |-> minimal]
    IN  IF /\ original_change_event.type = 1
           /\ \/ original_change_event.range.start = original_change_event.range.end
              \/ original_change_event.text = <<>>
        THEN details(original_change_event)
        ELSE LET diff == minimal_contiguous_difference(from_text, to_text)
                 diff_is_empty == diff[1][1] = diff[1][2] /\ diff[2][1] = diff[2][2]
             IN  IF diff_is_empty
                 THEN details(Type1(Range(Position(0, 0), Position(0, 0)), <<>>))
                 ELSE details(Type1(
                          Range(client_pos_from_index(from_text, diff[1][1]),
                                client_pos_from_index(from_text, diff[1][2])),
                          Slice(to_text, diff[2][1], diff[2][2])))

\* TextDocument as the server holds it
TextDocument(source, version) == [source |-> source, version |-> version]

\* DidChangeTextDocumentParams
DidChangeParams(version, content_changes) ==
    [version |-> version, content_changes |-> content_changes]

\* the loop that records every change against the text before the
\* notification
RECURSIVE record_changes_unchained(_, _, _)
record_changes_unchained(source, content_changes, k) ==
    IF k > Len(content_changes) THEN <<>>
    ELSE LET from_text == source
             to_text == apply_change(source, content_changes[k])
             rest == record_changes_unchained(source, content_changes, k + 1)
         IN  IF to_text # from_text
             THEN <<compute_minimal_change_event(content_changes[k], from_text, to_text)>>
                      \o rest
             ELSE rest

\* the loop of lsp_text_document__did_change over params.content_changes:
\* the changes recorded from the k-th event on, the document being at `source`
RECURSIVE record_changes(_, _, _)
record_changes(source, content_changes, k) ==
    IF k > Len(content_changes) THEN <<>>
    ELSE LET from_text == source
             to_text == apply_change(source, content_changes[k])
             rest == record_changes(to_text, content_changes, k + 1)
         IN  IF to_text # from_text
             THEN <<compute_minimal_change_event(content_changes[k], from_text, to_text)>>
                      \o rest
             ELSE rest

RECURSIVE apply_changes(_, _, _)
apply_changes(source, content_changes, k) ==
    IF k > Len(content_changes) THEN source
    ELSE apply_changes(apply_change(source, content_changes[k]), content_changes, k + 1)

\* lsp_text_document__did_change: the updated document and the transaction
\* handed to the observers
lsp_text_document__did_change(document, params) ==
    [document |-> TextDocument(
                      apply_changes(document.source, params.content_changes, 1),
                      IF params.content_changes = <<>> THEN document.version
                      ELSE params.version),
     change_transaction |->
         [from_document_version |-> document.version,
          to_document_version |-> params.version,
          content_changes |-> record_changes(document.source, params.content_changes, 1)]]

\* ------------------------------------------------------------ inserter.py
CursorDescription(position, has_cursor_char, has_eol) ==
    [position |-> position, has_cursor_char |-> has_cursor_char, has_eol |-> has_eol]
TextEdit(range, new_text) == [range |-> range, new_text |-> new_text]
CursorUpdate(from_version, to_version, text_edits, cursor) ==
    [from_document_version |-> from_version, to_document_version |-> to_version,
     text_edits |-> text_edits, cursor |-> cursor]
\* pending_update is None or Some(CursorUpdate)
CursorState(cursor, at_document_version, pending_update) ==
    [cursor |-> cursor, at_document_version |-> at_document_version,
     pending_update |-> pending_update]

\* text[0:text.index(CURSOR_CHAR)]
text_upto_cursor(text) ==
    SubSeq(text, 1, SetMin({i \in 1..Len(text) : text[i] = CURSOR_CHAR}) - 1)

\* the position of the cursor glyph of `text` when `text` is put at `start`:
\* `start` advanced by the text before the glyph
glyph_position(start, text) ==
    LET upto == text_upto_cursor(text)
    IN  IF count_all(upto, LF) > 0
        THEN Position(start.line + count_all(upto, LF), client_num_units(last_line_of(upto)))
        ELSE Position(start.line, start.character + client_num_units(upto))

\* "change is entirely before pos, and ends on an earlier line"
change_on_prior_lines(st, change) ==
    LET line_delta == count_all(change.text, LF)
                          - (change.range.end.line - change.range.start.line)
    IN  [st EXCEPT !.pos = Position(st.pos.line + line_delta, st.pos.character)]

\* the special case that does not move pos to the glyph
late_cursor_repair_after_text(st, change) ==
    [pos |-> Position(st.pos.line + count_all(change.text, LF)
                          - (change.range.end.line - change.range.start.line),
                      IF count_all(change.text, LF) > 0
                      THEN client_num_units(last_line_of(change.text))
                      ELSE change.range.start.character + client_num_units(change.text)),
     have_cursor_char |-> TRUE,
     expect_cursor_char_repair |-> FALSE]

\* "special case, we're expecting cursor repair, and the change appears to
\* insert the cursor char"
late_cursor_repair(st, change) ==
    [pos |-> glyph_position(change.range.start, change.text),
     have_cursor_char |-> TRUE,
     expect_cursor_char_repair |-> FALSE]

\* a change that ends on the line of pos, at or before it, and leaves pos
\* where it is
shift_on_same_line_stays(st, change) == st

\* the shift that takes the character of pos from the start of the range
\* whether or not the text has a newline
shift_on_same_line_without_newline(st, change) ==
    [st EXCEPT !.pos =
        Position(st.pos.line + count_all(change.text, LF)
                     - (change.range.end.line - change.range.start.line),
                 change.range.start.character + client_num_units(change.text)
                     + (st.pos.character - change.range.end.character))]

\* "change is entirely before pos, but ends on same line", the special case
\* apart
shift_on_same_line(st, change) ==
    LET pos == st.pos
        range_ == change.range
        text == change.text
        line_delta == count_all(text, LF) - (range_.end.line - range_.start.line)
    IN  [st EXCEPT !.pos =
            Position(pos.line + line_delta,
                     IF count_all(text, LF) > 0
                     THEN client_num_units(last_line_of(text))
                              + (pos.character - range_.end.character)
                     ELSE range_.start.character + client_num_units(text)
                              + (pos.character - range_.end.character))]

\* the fallback "end of inserted range", and the glyph is not given up
change_overlaps_pos_end_of_range(st, change) ==
    [st EXCEPT !.pos =
        IF count_all(change.text, LF) > 0
        THEN Position(change.range.start.line + count_all(change.text, LF),
                      client_num_units(last_line_of(change.text)))
        ELSE Position(change.range.start.line,
                      change.range.start.character + client_num_units(change.text))]

\* "range_ overlaps insertion point": the heuristics
change_overlaps_pos(st, change) ==
    LET pos == st.pos
        range_ == change.range
        text == change.text
        one_cursor_char == count_all(text, CURSOR_CHAR) = 1
        \* "if change is a deletion ... map pos to start of deletion"
        pos1 == IF Len(text) = 0 THEN range_.start ELSE pos
        \* "if have_cursor_char and to-text contains a single cursor char"
        retain == st.have_cursor_char /\ one_cursor_char
        prefix == text_upto_cursor(text)
        pos2 == IF ~retain THEN pos1
                ELSE IF count_all(prefix, LF) = 0
                THEN Position(pos1.line, range_.start.character + client_num_units(prefix))
                ELSE Position(pos1.line + count_all(prefix, LF),
                              client_num_units(last_line_of(prefix)))
        \* "if expect_cursor_char_repair and text.count(CURSOR_CHAR) == 1",
        \* whose else branch is the fallback "start of inserted range"
        repaired == st.expect_cursor_char_repair /\ one_cursor_char
    IN  [pos |-> IF repaired THEN pos2 ELSE range_.start,
         have_cursor_char |-> st.have_cursor_char /\ retain,
         expect_cursor_char_repair |-> st.expect_cursor_char_repair /\ ~repaired]

\* a change after pos that moves pos by the lines it adds
change_at_or_after_pos_shifts(st, change) ==
    [st EXCEPT !.pos = Position(st.pos.line + count_all(change.text, LF), st.pos.character)]

\* "change is at or after pos, ignore"
change_at_or_after_pos(st, change) == st

\* one iteration of the loop of compute_updated_cursor_position; st holds
\* pos, have_cursor_char and expect_cursor_char_repair
fold_change(st, change) ==
    LET pos == st.pos
        range_ == change.range
    IN  IF range_.end.line < pos.line
        THEN change_on_prior_lines(st, change)
        ELSE IF range_.end.line = pos.line /\ range_.end.character <= pos.character
        THEN IF /\ st.expect_cursor_char_repair
                /\ range_.end.character = pos.character
                /\ count_all(change.text, CURSOR_CHAR) = 1
             THEN late_cursor_repair(st, change)
             ELSE shift_on_same_line(st, change)
        ELSE IF \/ range_.start.line < pos.line
                \/ (range_.start.line = pos.line /\ range_.start.character < pos.character)
        THEN change_overlaps_pos(st, change)
        ELSE change_at_or_after_pos(st, change)

RECURSIVE fold_changes(_, _, _)
fold_changes(st, content_changes, k) ==
    IF k > Len(content_changes) THEN st
    ELSE fold_changes(fold_change(st, content_changes[k].minimal_change_event),
                      content_changes, k + 1)

\* compute_updated_cursor_position that leaves the position where it was
compute_updated_cursor_position_unmoved(initial_pos, have_cursor_char, expect_cursor_char_repair, change_transaction) == initial_pos

compute_updated_cursor_position(initial_pos, have_cursor_char, expect_cursor_char_repair, change_transaction) ==
    fold_changes([pos |-> initial_pos, have_cursor_char |-> have_cursor_char,
                  expect_cursor_char_repair |-> expect_cursor_char_repair],
                 change_transaction.content_changes, 1).pos

change_startswith_edits(change, text_edits) ==
    /\ Len(change.content_changes) >= Len(text_edits)
    /\ \A i \in 1..Len(text_edits) :
           LET o == change.content_changes[i].original_change_event
           IN  /\ o.type = 1
               /\ o.range = text_edits[i].range
               /\ o.text = text_edits[i].new_text

\* the brute-force inspection of the document at a cursor position
\* (notify_document_content_change, "brute-force compute ...")
inspect_cursor(source, position) ==
    LET py_pos == position_from_client_units(source, position)
        line == IF py_pos.line < LineCount(source) THEN Line(source, py_pos.line) ELSE <<>>
        has_cursor_char ==
            /\ py_pos.line < LineCount(source)
            /\ startswith_at(line, <<CURSOR_CHAR>>, py_pos.character)
        has_eol ==
            /\ has_cursor_char
            /\ \/ startswith_at(line, <<LF>>, py_pos.character + 1)
               \/ startswith_at(line, <<CR, LF>>, py_pos.character + 1)
    IN  CursorDescription(position, has_cursor_char, has_eol)

\* reconcile_branch that does not tell a transaction that fails to begin
\* with the pending edits from one that spans the pending update
reconcile_branch_mismatch_as_spanned(cursor_state, change) ==
    IF cursor_state.pending_update = None THEN "no_pending"
    ELSE LET pending == The(cursor_state.pending_update)
         IN  IF pending.from_document_version < change.from_document_version
             THEN "stale"
             ELSE IF /\ pending.from_document_version = change.from_document_version
                     /\ pending.to_document_version = change.to_document_version
             THEN "version_match"
             ELSE IF /\ pending.from_document_version = change.from_document_version
                     /\ change_startswith_edits(change, pending.text_edits)
             THEN IF Len(change.content_changes) = Len(pending.text_edits)
                  THEN "content_match"
                  ELSE "content_match_prefix"
             ELSE IF /\ pending.from_document_version >= change.from_document_version
                     /\ pending.to_document_version <= change.to_document_version
             THEN "spanned"
             ELSE "future"

\* how the pending update of a cursor state relates to a transaction
reconcile_branch(cursor_state, change) ==
    IF cursor_state.pending_update = None THEN "no_pending"
    ELSE LET pending == The(cursor_state.pending_update)
         IN  IF pending.from_document_version < change.from_document_version
             THEN "stale"
             ELSE IF /\ pending.from_document_version = change.from_document_version
                     /\ pending.to_document_version = change.to_document_version
             THEN "version_match"
             ELSE IF pending.from_document_version = change.from_document_version
             THEN IF change_startswith_edits(change, pending.text_edits)
                  THEN IF Len(change.content_changes) = Len(pending.text_edits)
                       THEN "content_match"
                       ELSE "content_match_prefix"
                  ELSE "mismatch"
             ELSE IF /\ pending.from_document_version >= change.from_document_version
                     /\ pending.to_document_version <= change.to_document_version
             THEN "spanned"
             ELSE "future"

\* the body of the loop that folds the whole transaction after a pending
\* update was matched by the first changes of it
update_cursor_state_whole_change(cursor_state, change, source) ==
    LET branch == reconcile_branch(cursor_state, change)
        pending == The(cursor_state.pending_update)
    IN  IF branch = "version_match"
        THEN [state |-> CursorState(pending.cursor, change.to_document_version, None),
              repair |-> FALSE]
        ELSE IF branch = "content_match"
        THEN [state |-> CursorState(pending.cursor, pending.to_document_version, None),
              repair |-> FALSE]
        ELSE LET adopted == branch = "content_match_prefix"
                 cursor == IF adopted THEN pending.cursor ELSE cursor_state.cursor
                 _change == change
                 expect_cursor_char_repair ==
                     /\ branch = "mismatch"
                     /\ ~cursor_state.cursor.has_cursor_char
                     /\ pending.cursor.has_cursor_char
                 new_cursor ==
                     inspect_cursor(source,
                         compute_updated_cursor_position(cursor.position,
                             cursor.has_cursor_char, expect_cursor_char_repair, _change))
             IN  [state |-> CursorState(new_cursor, _change.to_document_version,
                                IF branch = "future" THEN cursor_state.pending_update
                                ELSE None),
                  repair |-> cursor.has_cursor_char /\ new_cursor.has_cursor_char]

\* the body of the loop that, on a match by version, drops the pending
\* update and folds the transaction into the cursor as it was
update_cursor_state_version_match_folds(cursor_state, change, source) ==
    LET branch == reconcile_branch(cursor_state, change)
        pending == The(cursor_state.pending_update)
    IN  IF branch = "content_match"
        THEN [state |-> CursorState(pending.cursor, pending.to_document_version, None),
              repair |-> FALSE]
        ELSE LET adopted == branch = "content_match_prefix"
                 cursor == IF adopted THEN pending.cursor ELSE cursor_state.cursor
                 _change == IF adopted
                            THEN [change EXCEPT !.content_changes =
                                     SubSeq(change.content_changes,
                                            Len(pending.text_edits) + 1,
                                            Len(change.content_changes))]
                            ELSE change
                 expect_cursor_char_repair ==
                     /\ branch = "mismatch"
                     /\ ~cursor_state.cursor.has_cursor_char
                     /\ pending.cursor.has_cursor_char
                 new_cursor ==
                     inspect_cursor(source,
                         compute_updated_cursor_position(cursor.position,
                             cursor.has_cursor_char, expect_cursor_char_repair, _change))
             IN  [state |-> CursorState(new_cursor, _change.to_document_version,
                                IF branch = "future" THEN cursor_state.pending_update
                                ELSE None),
                  repair |-> cursor.has_cursor_char /\ new_cursor.has_cursor_char]

\* the body of the loop of notify_document_content_change for one cursor
\* state: the updated state and whether it asks for cursor repair
update_cursor_state(cursor_state, change, source) ==
    LET branch == reconcile_branch(cursor_state, change)
        pending == The(cursor_state.pending_update)
    IN  IF branch = "version_match"
        THEN [state |-> CursorState(pending.cursor, change.to_document_version, None),
              repair |-> FALSE]
        ELSE IF branch = "content_match"
        THEN [state |-> CursorState(pending.cursor, pending.to_document_version, None),
              repair |-> FALSE]
        ELSE LET adopted == branch = "content_match_prefix"
                 cursor == IF adopted THEN pending.cursor ELSE cursor_state.cursor
                 _change == IF adopted
                            THEN [change EXCEPT !.content_changes =
                                     SubSeq(change.content_changes,
                                            Len(pending.text_edits) + 1,
                                            Len(change.content_changes))]
                            ELSE change
                 expect_cursor_char_repair ==
                     /\ branch = "mismatch"
                     /\ ~cursor_state.cursor.has_cursor_char
                     /\ pending.cursor.has_cursor_char
                 new_cursor ==
                     inspect_cursor(source,
                         compute_updated_cursor_position(cursor.position,
                             cursor.has_cursor_char, expect_cursor_char_repair, _change))
             IN  [state |-> CursorState(new_cursor, _change.to_document_version,
                                IF branch = "future" THEN cursor_state.pending_update
                                ELSE None),
                  repair |-> cursor.has_cursor_char /\ new_cursor.has_cursor_char]

\* notify_document_content_change that asks for a repair whenever a cursor
\* state ends with the glyph
notify_document_content_change_any_glyph(active_cursor_states, change, source) ==
    LET updated == [i \in 1..Len(active_cursor_states) |->
                       update_cursor_state(active_cursor_states[i], change, source)]
    IN  [active_cursor_states |-> [i \in 1..Len(updated) |-> updated[i].state],
         do_request_cursor_repair |->
             \E i \in 1..Len(updated) : updated[i].state.cursor.has_cursor_char]

\* notify_document_content_change: the updated cursor states and whether a
\* REQUEST_CURSOR_REPAIR is put on the queue
notify_document_content_change(active_cursor_states, change, source) ==
    LET updated == [i \in 1..Len(active_cursor_states) |->
                       update_cursor_state(active_cursor_states[i], change, source)]
    IN  [active_cursor_states |-> [i \in 1..Len(updated) |-> updated[i].state],
         do_request_cursor_repair |-> \E i \in 1..Len(updated) : updated[i].repair]

\* QueueSentinel and the items of the queue
END_OF_STREAM == [kind |-> "END_OF_STREAM", text |-> <<>>]
REQUEST_CURSOR_REPAIR == [kind |-> "REQUEST_CURSOR_REPAIR", text |-> <<>>]
TextItem(text) == [kind |-> "text", text |-> text]

\* try_begin_edit that does not look at the pending update
try_begin_edit_ignoring_pending(active_cursor_states, document) ==
    IF Len(active_cursor_states) # 1 THEN AssertionError
    ELSE IF active_cursor_states[1].at_document_version # document.version
    THEN AssertionError
    ELSE "ok"

\* try_begin_edit: "AssertionError", "None", or "ok" (a snapshot of the
\* single cursor state is returned)
try_begin_edit(active_cursor_states, document) ==
    IF Len(active_cursor_states) # 1 THEN AssertionError
    ELSE IF active_cursor_states[1].pending_update # None THEN "None"
    ELSE IF active_cursor_states[1].at_document_version # document.version
    THEN AssertionError
    ELSE "ok"

\* try_insert_text that appends the glyph whether or not the cursor has it
insert_text_edit_always_repairs(cursor, text, eol_sequence) ==
    [new_text |-> text \o <<CURSOR_CHAR>>,
     text_edits |-> <<TextEdit(Range(cursor.position, cursor.position),
                               text \o <<CURSOR_CHAR>>)>>,
     cursor_upon_success |->
         CursorDescription(Position(cursor.position.line + count_all(text, LF),
                                    IF count_all(text, LF) > 0
                                    THEN client_num_units(last_line_of(text))
                                    ELSE cursor.position.character + client_num_units(text)),
                           TRUE, cursor.has_eol)]

\* try_insert_text whose cursor upon success is behind all of the text it
\* inserts, the repair of the cursor included
insert_text_edit_behind_repair(cursor, text, eol_sequence) ==
    LET cursor_repair_text ==
            IF cursor.has_cursor_char THEN <<>>
            ELSE IF cursor.has_eol THEN <<CURSOR_CHAR>>
            ELSE <<CURSOR_CHAR>> \o eol_sequence
        new_text == text \o cursor_repair_text
        new_position ==
            IF count_all(new_text, LF) > 0
            THEN Position(cursor.position.line + count_all(new_text, LF),
                          client_num_units(last_line_of(new_text)))
            ELSE Position(cursor.position.line,
                          cursor.position.character + client_num_units(new_text))
    IN  [new_text |-> new_text,
         text_edits |-> <<TextEdit(Range(cursor.position, cursor.position), new_text)>>,
         cursor_upon_success |->
             CursorDescription(new_position, TRUE,
                               IF cursor.has_cursor_char THEN cursor.has_eol ELSE TRUE)]

\* try_insert_text up to the call of try_apply_edits: the text edits and the
\* cursor upon success
insert_text_edit(cursor, text, eol_sequence) ==
    LET new_position ==
            IF count_all(text, LF) > 0
            THEN Position(cursor.position.line + count_all(text, LF),
                          client_num_units(last_line_of(text)))
            ELSE Position(cursor.position.line,
                          cursor.position.character + client_num_units(text))
        cursor_repair_text ==
            IF cursor.has_cursor_char THEN <<>>
            ELSE IF cursor.has_eol THEN <<CURSOR_CHAR>>
            ELSE <<CURSOR_CHAR>> \o eol_sequence
        cursor_upon_success ==
            CursorDescription(new_position, TRUE,
                              IF cursor.has_cursor_char THEN cursor.has_eol ELSE TRUE)
    IN  [new_text |-> text \o cursor_repair_text,
         text_edits |-> <<TextEdit(Range(cursor.position, cursor.position),
                                   text \o cursor_repair_text)>>,
         cursor_upon_success |-> cursor_upon_success]

\* try_remove_cursor_sequence whose cursor upon success keeps has_eol
remove_cursor_edit_keeps_eol(cursor) ==
    [nothing_to_remove |-> ~cursor.has_cursor_char,
     text_edits |->
         <<TextEdit(Range(cursor.position,
                          IF cursor.has_cursor_char /\ cursor.has_eol
                          THEN Position(cursor.position.line + 1, 0)
                          ELSE Position(cursor.position.line,
                                        cursor.position.character
                                            + client_num_units(<<CURSOR_CHAR>>))),
                    <<>>)>>,
     cursor_upon_success |-> CursorDescription(cursor.position, FALSE, cursor.has_eol)]

\* try_remove_cursor_sequence that leaves the end of line behind the glyph
remove_cursor_edit_glyph_only(cursor) ==
    [nothing_to_remove |-> ~cursor.has_cursor_char,
     text_edits |-> <<TextEdit(Range(cursor.position,
                                     Position(cursor.position.line,
                                              cursor.position.character
                                                  + client_num_units(<<CURSOR_CHAR>>))),
                               <<>>)>>,
     cursor_upon_success |-> CursorDescription(cursor.position, FALSE, FALSE)]

\* try_remove_cursor_sequence whose cursor upon success still has the glyph
remove_cursor_edit_keeps_glyph(cursor) ==
    LET start == cursor.position
        end == IF cursor.has_cursor_char /\ cursor.has_eol
               THEN Position(start.line + 1, 0)
               ELSE Position(start.line,
                             start.character + client_num_units(<<CURSOR_CHAR>>))
    IN  [nothing_to_remove |-> ~cursor.has_cursor_char,
         text_edits |-> <<TextEdit(Range(start, end), <<>>)>>,
         cursor_upon_success |-> CursorDescription(cursor.position, TRUE, cursor.has_eol)]

\* try_remove_cursor_sequence up to the call of try_apply_edits
remove_cursor_edit(cursor) ==
    LET start == cursor.position
        end == IF cursor.has_cursor_char /\ cursor.has_eol
               THEN Position(start.line + 1, 0)
               ELSE Position(start.line,
                             start.character + client_num_units(<<CURSOR_CHAR>>))
    IN  [nothing_to_remove |-> ~cursor.has_cursor_char,
         text_edits |-> <<TextEdit(Range(start, end), <<>>)>>,
         cursor_upon_success |-> CursorDescription(cursor.position, FALSE, FALSE)]

\* try_apply_edits, before the await: the success path and the failure path
fork_cursor_states(active_cursor_states, text_edits, cursor_upon_success) ==
    LET failure_path == active_cursor_states[1]
        success_path ==
            CursorState(failure_path.cursor, failure_path.at_document_version,
                Some(CursorUpdate(failure_path.at_document_version,
                                  failure_path.at_document_version + 1,
                                  text_edits, cursor_upon_success)))
    IN  <<success_path, failure_path>>

\* collapse that keeps both paths
collapse_cursor_states_keep_both(active_cursor_states, applied) == active_cursor_states

\* collapse that keeps the path of the other outcome
collapse_cursor_states_swapped(active_cursor_states, applied) ==
    IF applied THEN <<active_cursor_states[2]>> ELSE <<active_cursor_states[1]>>

\* try_apply_edits, after the await
collapse_cursor_states(active_cursor_states, applied) ==
    IF applied THEN <<active_cursor_states[1]>> ELSE <<active_cursor_states[2]>>

\* get_cursor_pos that reads the first active cursor state
get_cursor_pos_of_first_state(active_cursor_states, last_known_cursor_pos) ==
    active_cursor_states[1].cursor.position

\* get_cursor_pos
get_cursor_pos(active_cursor_states, last_known_cursor_pos) ==
    IF Len(active_cursor_states) = 1 THEN active_cursor_states[1].cursor.position
    ELSE The(last_known_cursor_pos)

\* pull_queue that puts a newly read text before the text already pending
RECURSIVE pull_queue_newest_first(_)
pull_queue_newest_first(d) ==
    IF d.queue = <<>>
    THEN [d EXCEPT !.blocked = ~(d.pending # <<>> \/ d.repair_cursor)]
    ELSE LET item == Head(d.queue)
             rest == [d EXCEPT !.queue = Tail(d.queue)]
         IN  IF item = END_OF_STREAM THEN [rest EXCEPT !.at_end = TRUE]
             ELSE IF item = REQUEST_CURSOR_REPAIR
             THEN pull_queue_newest_first([rest EXCEPT !.repair_cursor = TRUE])
             ELSE pull_queue_newest_first([rest EXCEPT !.pending = item.text \o d.pending])


\* the pulling loop that waits in queue.get() whenever the queue is empty
RECURSIVE pull_queue_waits_when_empty(_)
pull_queue_waits_when_empty(d) ==
    IF d.queue = <<>>
    THEN [d EXCEPT !.blocked = TRUE]
    ELSE LET item == Head(d.queue)
             rest == [d EXCEPT !.queue = Tail(d.queue)]
         IN  IF item = END_OF_STREAM THEN [rest EXCEPT !.at_end = TRUE]
             ELSE IF item = REQUEST_CURSOR_REPAIR
             THEN pull_queue_waits_when_empty([rest EXCEPT !.repair_cursor = TRUE])
             ELSE pull_queue_waits_when_empty([rest EXCEPT !.pending = d.pending \o item.text])

\* the pulling loop of insert_queued_text, run until the queue is empty or
\* END_OF_STREAM is read; d holds queue, pending, repair_cursor, at_end, and
\* blocked tells that the loop is waiting in queue.get()
RECURSIVE pull_queue(_)
pull_queue(d) ==
    IF d.queue = <<>>
    THEN [d EXCEPT !.blocked = ~(d.pending # <<>> \/ d.repair_cursor)]
    ELSE LET item == Head(d.queue)
             rest == [d EXCEPT !.queue = Tail(d.queue)]
         IN  IF item = END_OF_STREAM THEN [rest EXCEPT !.at_end = TRUE]
             ELSE IF item = REQUEST_CURSOR_REPAIR
             THEN pull_queue([rest EXCEPT !.repair_cursor = TRUE])
             ELSE pull_queue([rest EXCEPT !.pending = d.pending \o item.text])

\* ------------------------------------------------------------ prapti_run.py
make_end_of_file_position(document_text) ==
    IF document_text = <<>> THEN Position(0, 0)
    ELSE IF endswith(document_text, <<LF>>)
    THEN Position(count_all(document_text, LF), 0)
    ELSE Position(count_all(document_text, LF),
                  client_num_units(last_line_of(document_text)))

\* contains "\r\n"
contains_crlf(s) == \E i \in 1..(Len(s) - 1) : s[i] = CR /\ s[i + 1] = LF

\* the fallback reads os.linesep in a module that does not import os
NameError == <<"NameError">>
detect_eol_sequence(source) ==
    IF contains_crlf(source) THEN <<CR, LF>>
    ELSE IF count_all(source, LF) > 0 THEN <<LF>>
    ELSE NameError

\* s.replace("\r\n", "\n")
RECURSIVE rewrite_eol_sequence_to_lf(_)
rewrite_eol_sequence_to_lf(s) ==
    IF s = <<>> THEN <<>>
    ELSE IF Len(s) >= 2 /\ s[1] = CR /\ s[2] = LF
    THEN <<LF>> \o rewrite_eol_sequence_to_lf(SubSeq(s, 3, Len(s)))
    ELSE <<s[1]>> \o rewrite_eol_sequence_to_lf(Tail(s))

\* s.replace("\n", "\r\n")
RECURSIVE replace_lf_by_crlf(_)
replace_lf_by_crlf(s) ==
    IF s = <<>> THEN <<>>
    ELSE IF s[1] = LF THEN <<CR, LF>> \o replace_lf_by_crlf(Tail(s))
    ELSE <<s[1]>> \o replace_lf_by_crlf(Tail(s))

rewrite_eol_sequence_to_crlf(s) ==
    IF count_all(s, LF) > 0
    THEN IF contains_crlf(s) THEN replace_lf_by_crlf(rewrite_eol_sequence_to_lf(s))
         ELSE replace_lf_by_crlf(s)
    ELSE s

\* select_eol_sequence_rewriter(eol_sequence) applied to s
rewrite_eol_sequence(eol_sequence, s) ==
    IF eol_sequence = <<LF>> THEN rewrite_eol_sequence_to_lf(s)
    ELSE rewrite_eol_sequence_to_crlf(s)

\* LsPraptiRunState
INITIALISED == "INITIALISED"
RUNNING == "RUNNING"
STOPPING == "STOPPING"
STOPPED == "STOPPED"

\* ------------------------------------------------------------ state
VARIABLES
    \* change normalisation on its own: a document, one didChange
    \* notification, and what lsp_text_document__did_change makes of it
    dx_document,
    dx_params,
    dx_out,
    \* <<result, result_>> of minimal_contiguous_difference's symmetry check
    dx_diff,
    \* the client: its document and version, the didChange notifications on
    \* their way to the server, the applyEdit request and its response
    client_source,
    client_version,
    did_change_queue,
    apply_edit_request,
    apply_edit_response,
    \* the server: workspace document, TextInserter, queue
    document,
    active_cursor_states,
    last_known_cursor_pos,
    queue,
    eol_sequence,
    \* insert_queued_text: where the coroutine is, and its locals
    pc,
    pending,
    repair_cursor,
    at_end,
    \* run_prapti_text_generation (the enqueue task) and LsPraptiRun
    enqueue_task,
    run_state,
    observer_registered,
    run_raised,
    \* history: the fragments put on the queue, the fragment texts of the
    \* insert edits the client applied, the user's edits and the client's
    \* refusals so far, and what the last step folded (None unless the step
    \* was a didChange delivered to the inserter)
    produced,
    inserted,
    client_edits,
    rejects,
    folded,
    \* PraptiLanguageServer: the active-run map (document uri to run), every
    \* LsPraptiRun made so far, the observers registered per uri, the
    \* run_prapti tasks created and not yet started, and the commands so far
    _active_prapti_runs,
    prapti_runs,
    _observers,
    run_prapti_tasks,
    commands

dx_vars == <<dx_document, dx_params, dx_out, dx_diff>>
client_vars == <<client_source, client_version, did_change_queue>>
edit_vars == <<apply_edit_request, apply_edit_response>>
inserter_vars == <<active_cursor_states, last_known_cursor_pos>>
driver_vars == <<pc, pending, repair_cursor, at_end>>
run_vars == <<enqueue_task, run_state, observer_registered, run_raised>>
history_vars == <<produced, inserted, client_edits, rejects>>
server_vars == <<_active_prapti_runs, prapti_runs, _observers, run_prapti_tasks, commands>>
\* what a single run leaves alone
idle_vars == <<dx_vars, server_vars>>
vars == <<dx_vars, client_vars, edit_vars, document, inserter_vars, queue, eol_sequence,
          driver_vars, run_vars, history_vars, folded, server_vars>>

\* the documents of the workspace
DocumentURIs == {"file:///a.md", "file:///b.md"}
\* PraptiLanguageServer.__init__ and ObservableLanguageServerProtocol.__init__:
\* no active run, no observer
ServerIdle ==
    /\ _active_prapti_runs = [uri \in DocumentURIs |-> None]
    /\ prapti_runs = <<>>
    /\ _observers = [uri \in DocumentURIs |-> <<>>]
    /\ run_prapti_tasks = [uri \in DocumentURIs |-> 0]
    /\ commands = 0

\* ------------------------------------------------------------ SpecDiff
\* no run: the values of the run's variables while only change
\* normalisation is looked at
RunIdle ==
    /\ client_source = <<>>
    /\ client_version = 0
    /\ did_change_queue = <<>>
    /\ apply_edit_request = None
    /\ apply_edit_response = None
    /\ document = TextDocument(<<>>, 0)
    /\ active_cursor_states = <<>>
    /\ last_known_cursor_pos = None
    /\ queue = <<>>
    /\ eol_sequence = <<LF>>
    /\ pc = "idle"
    /\ pending = <<>>
    /\ repair_cursor = FALSE
    /\ at_end = FALSE
    /\ enqueue_task = "idle"
    /\ run_state = INITIALISED
    /\ observer_registered = FALSE
    /\ run_raised = FALSE
    /\ produced = <<>>
    /\ inserted = <<>>
    /\ client_edits = 0
    /\ rejects = 0
    /\ folded = None

DiffAlphabet == {"a", WIDE, LF}
DiffTexts == TextsUpTo(DiffAlphabet, MaxDiffLen)
DiffEventTexts == TextsUpTo(DiffAlphabet, MaxEventTextLen)
\* the client positions of a text
PositionsOf(s) == {client_pos_from_index(s, i) : i \in 0..Len(s)}
DiffEvents(s) ==
    {Type2(t) : t \in DiffTexts}
    \cup {Type1(Range(st, en), t) :
             st \in PositionsOf(s), en \in PositionsOf(s), t \in DiffEventTexts}

DiffInit ==
    /\ dx_document \in {TextDocument(s, 1) : s \in DiffTexts}
    /\ dx_params \in {DidChangeParams(2, <<e>>) :
                         e \in {ev \in DiffEvents(dx_document.source) :
                                   ev.type = 1 => PosLE(ev.range.start, ev.range.end)}}
    /\ dx_out = None
    /\ dx_diff = None
    /\ ServerIdle
    /\ RunIdle

\* the server handles the notification; minimal_contiguous_difference also
\* computes the difference in the other direction for its symmetry check
DiffStep ==
    /\ dx_out = None
    /\ dx_out' = Some(lsp_text_document__did_change(dx_document, dx_params))
    /\ dx_diff' =
           LET a == dx_document.source
               b == The(dx_out').document.source
           IN  Some(<<minimal_contiguous_difference(a, b),
                      _minimal_contiguous_difference(b, a)>>)
    /\ UNCHANGED <<dx_document, dx_params, server_vars>>
    /\ UNCHANGED <<client_vars, edit_vars, document, inserter_vars, queue, eol_sequence,
                   driver_vars, run_vars, history_vars, folded>>

DiffNext == DiffStep

SpecDiff == DiffInit /\ [][DiffNext]_vars

\* ------------------------------------------------------------ Spec: one run
\* the documents a run starts on
InitialSources == {<<"a", LF>>}
\* what the generator yields, in turn
GeneratorOutput == << <<"x">>, <<"y", LF>> >>
\* what the user types or pastes
UserTexts == {<<>>, <<"Z">>, <<CURSOR_CHAR>>}
\* the user's edits of a document: insertions of a character, deletions of
\* one, and replacements of one by the cursor glyph
UserEvents(s) ==
    {Type1(Range(client_pos_from_index(s, i), client_pos_from_index(s, j)), t) :
        <<i, j, t>> \in {x \in (0..Len(s)) \X (0..Len(s)) \X UserTexts :
                            /\ x[1] <= x[2]
                            /\ x[2] - x[1] <= 1
                            /\ ~(x[1] = x[2] /\ x[3] = <<>>)
                            /\ ~(x[1] < x[2] /\ x[3] = <<"Z">>)}}

\* LsPraptiRun.run up to its await of gather: the inserter is created with
\* its cursor at the end of the file and registered, both tasks are created
Init ==
    /\ dx_document = TextDocument(<<>>, 0)
    /\ dx_params = DidChangeParams(0, <<>>)
    /\ dx_out = None
    /\ dx_diff = None
    /\ ServerIdle
    /\ \E source \in InitialSources :
          /\ client_source = source
          /\ document = TextDocument(source, 1)
          /\ active_cursor_states =
                 <<CursorState(CursorDescription(make_end_of_file_position(source),
                                                 FALSE, FALSE), 1, None)>>
          /\ eol_sequence = detect_eol_sequence(source)
    /\ client_version = 1
    /\ did_change_queue = <<>>
    /\ apply_edit_request = None
    /\ apply_edit_response = None
    /\ last_known_cursor_pos = None
    /\ queue = <<>>
    /\ pc = "pull"
    /\ pending = <<>>
    /\ repair_cursor = TRUE
    /\ at_end = FALSE
    /\ enqueue_task = "running"
    /\ run_state = RUNNING
    /\ observer_registered = TRUE
    /\ run_raised = FALSE
    /\ produced = <<>>
    /\ inserted = <<>>
    /\ client_edits = 0
    /\ rejects = 0
    /\ folded = None

\* asyncio runs one task at a time: while insert_queued_text is between two
\* of its awaits nothing else runs
DriverRunning == pc \in {"pull", "insert", "remove"}
DriverSuspended == ~DriverRunning

\* --- insert_queued_text
PullFrom ==
    LET d == pull_queue([queue |-> queue, pending |-> pending,
                         repair_cursor |-> repair_cursor, at_end |-> at_end,
                         blocked |-> FALSE])
    IN  /\ queue' = d.queue
        /\ pending' = d.pending
        /\ repair_cursor' = d.repair_cursor
        /\ at_end' = d.at_end
        /\ pc' = IF d.blocked THEN "blocked" ELSE "insert"

\* the top of the loop: copy more input into the pending buffer
Pull ==
    /\ pc = "pull"
    /\ IF at_end
       THEN pc' = "insert" /\ UNCHANGED <<queue, pending, repair_cursor, at_end>>
       ELSE PullFrom
    /\ folded' = None
    /\ UNCHANGED <<idle_vars, client_vars, edit_vars, document, inserter_vars, eol_sequence,
                   run_vars, history_vars>>

\* queue.get() returns
Unblock ==
    /\ pc = "blocked"
    /\ queue # <<>>
    /\ PullFrom
    /\ folded' = None
    /\ UNCHANGED <<idle_vars, client_vars, edit_vars, document, inserter_vars, eol_sequence,
                   run_vars, history_vars>>

\* try_apply_edits up to its await of apply_edit_async
SubmitEdit(text_edits, cursor_upon_success) ==
    /\ last_known_cursor_pos' = Some(active_cursor_states[1].cursor.position)
    /\ active_cursor_states' =
           fork_cursor_states(active_cursor_states, text_edits, cursor_upon_success)
    /\ apply_edit_request' =
           Some([version |-> active_cursor_states[1].at_document_version,
                 edits |-> text_edits])

\* "if at_end and not pending: break", else try_insert_text(pending)
TryInsertText ==
    /\ pc = "insert"
    /\ folded' = None
    /\ IF at_end /\ pending = <<>>
       THEN /\ pc' = "remove"
            /\ UNCHANGED <<pending, repair_cursor, inserter_vars, apply_edit_request>>
       ELSE LET begin == try_begin_edit(active_cursor_states, document)
                edit == insert_text_edit(active_cursor_states[1].cursor, pending,
                                         eol_sequence)
            IN  IF begin = AssertionError
                THEN /\ pc' = "failed"
                     /\ UNCHANGED <<pending, repair_cursor, inserter_vars,
                                    apply_edit_request>>
                ELSE IF begin = "None"
                THEN /\ pc' = "sleep_insert"
                     /\ UNCHANGED <<pending, repair_cursor, inserter_vars,
                                    apply_edit_request>>
                ELSE IF edit.new_text = <<>>
                THEN /\ pc' = "pull"
                     /\ pending' = <<>>
                     /\ repair_cursor' = FALSE
                     /\ UNCHANGED <<inserter_vars, apply_edit_request>>
                ELSE /\ pc' = "await_insert"
                     /\ SubmitEdit(edit.text_edits, edit.cursor_upon_success)
                     /\ UNCHANGED <<pending, repair_cursor>>
    /\ UNCHANGED <<idle_vars, client_vars, apply_edit_response, document, queue,
                   eol_sequence, at_end, run_vars, history_vars>>

\* apply_edit_async returns to try_apply_edits, which returns to
\* try_insert_text and to the loop
InsertResponse ==
    /\ pc = "await_insert"
    /\ apply_edit_response # None
    /\ active_cursor_states' =
           collapse_cursor_states(active_cursor_states, The(apply_edit_response))
    /\ last_known_cursor_pos' = None
    /\ apply_edit_response' = None
    /\ IF The(apply_edit_response)
       THEN pending' = <<>> /\ repair_cursor' = FALSE /\ pc' = "pull"
       ELSE pc' = "sleep_insert" /\ UNCHANGED <<pending, repair_cursor>>
    /\ folded' = None
    /\ UNCHANGED <<idle_vars, client_vars, apply_edit_request, document, queue,
                   eol_sequence, at_end, run_vars, history_vars>>

\* asyncio.sleep(0.1) returns
Wake ==
    /\ \/ pc = "sleep_insert" /\ pc' = "pull"
       \/ pc = "sleep_remove" /\ pc' = "remove"
    /\ folded' = None
    /\ UNCHANGED <<idle_vars, client_vars, edit_vars, document, inserter_vars, queue,
                   eol_sequence, pending, repair_cursor, at_end, run_vars, history_vars>>

\* try_remove_cursor_sequence up to its await
TryRemoveCursorSequence ==
    /\ pc = "remove"
    /\ folded' = None
    /\ LET begin == try_begin_edit(active_cursor_states, document)
           edit == remove_cursor_edit(active_cursor_states[1].cursor)
       IN  IF begin = AssertionError
           THEN pc' = "failed" /\ UNCHANGED <<inserter_vars, apply_edit_request>>
           ELSE IF begin = "None"
           THEN pc' = "sleep_remove" /\ UNCHANGED <<inserter_vars, apply_edit_request>>
           ELSE IF edit.nothing_to_remove
           THEN pc' = "done" /\ UNCHANGED <<inserter_vars, apply_edit_request>>
           ELSE /\ pc' = "await_remove"
                /\ SubmitEdit(edit.text_edits, edit.cursor_upon_success)
    /\ UNCHANGED <<idle_vars, client_vars, apply_edit_response, document, queue,
                   eol_sequence, pending, repair_cursor, at_end, run_vars, history_vars>>

RemoveResponse ==
    /\ pc = "await_remove"
    /\ apply_edit_response # None
    /\ active_cursor_states' =
           collapse_cursor_states(active_cursor_states, The(apply_edit_response))
    /\ last_known_cursor_pos' = None
    /\ apply_edit_response' = None
    /\ pc' = IF The(apply_edit_response) THEN "done" ELSE "sleep_remove"
    /\ folded' = None
    /\ UNCHANGED <<idle_vars, client_vars, apply_edit_request, document, queue,
                   eol_sequence, pending, repair_cursor, at_end, run_vars, history_vars>>

\* --- the client
\* the text of an edit without the cursor-repair suffix, which starts at
\* the cursor glyph
without_cursor_repair(new_text) ==
    IF count_all(new_text, CURSOR_CHAR) = 0 THEN new_text
    ELSE text_upto_cursor(new_text)

\* the client applies a versioned workspace edit to the version it is at,
\* answers applied = true and notifies the change
ClientApplyEdit ==
    /\ DriverSuspended
    /\ apply_edit_request # None
    /\ LET request == The(apply_edit_request)
           event == Type1(request.edits[1].range, request.edits[1].new_text)
       IN  /\ request.version = client_version
           /\ client_source' = apply_change(client_source, event)
           /\ client_version' = client_version + 1
           /\ did_change_queue' =
                  Append(did_change_queue, DidChangeParams(client_version + 1, <<event>>))
           /\ inserted' = inserted \o without_cursor_repair(request.edits[1].new_text)
    /\ apply_edit_request' = None
    /\ apply_edit_response' = Some(TRUE)
    /\ folded' = None
    /\ UNCHANGED <<idle_vars, document, inserter_vars, queue, eol_sequence, driver_vars,
                   run_vars, produced, client_edits, rejects>>

\* the client answers applied = false: the edit is for another version than
\* the one it is at, or it refuses the edit for a reason of its own
ClientRefuseEdit ==
    /\ DriverSuspended
    /\ apply_edit_request # None
    /\ \/ The(apply_edit_request).version # client_version /\ rejects' = rejects
       \/ /\ The(apply_edit_request).version = client_version
          /\ rejects < MaxRejects
          /\ rejects' = rejects + 1
    /\ apply_edit_request' = None
    /\ apply_edit_response' = Some(FALSE)
    /\ folded' = None
    /\ UNCHANGED <<idle_vars, client_vars, document, inserter_vars, queue, eol_sequence,
                   driver_vars, run_vars, produced, inserted, client_edits>>

\* the user edits the document
UserEdit ==
    /\ DriverSuspended
    /\ client_edits < MaxClientEdits
    /\ run_state # STOPPED
    /\ \E event \in UserEvents(client_source) :
          /\ client_source' = apply_change(client_source, event)
          /\ did_change_queue' =
                 Append(did_change_queue, DidChangeParams(client_version + 1, <<event>>))
    /\ client_version' = client_version + 1
    /\ client_edits' = client_edits + 1
    /\ folded' = None
    /\ UNCHANGED <<idle_vars, edit_vars, document, inserter_vars, queue, eol_sequence,
                   driver_vars, run_vars, produced, inserted, rejects>>

\* the client sends its two latest changes in one notification
ClientCoalesce ==
    /\ DriverSuspended
    /\ Len(did_change_queue) >= 2
    /\ LET n == Len(did_change_queue)
           first == did_change_queue[n - 1]
           second == did_change_queue[n]
       IN  did_change_queue' =
               Append(SubSeq(did_change_queue, 1, n - 2),
                      DidChangeParams(second.version,
                                      first.content_changes \o second.content_changes))
    /\ folded' = None
    /\ UNCHANGED <<idle_vars, client_source, client_version, edit_vars, document,
                   inserter_vars, queue, eol_sequence, driver_vars, run_vars, history_vars>>

\* --- the server's didChange handler
\* lsp_text_document__did_change and, for a registered inserter,
\* notify_document_content_change
DidChange ==
    /\ DriverSuspended
    /\ did_change_queue # <<>>
    /\ \E out \in {lsp_text_document__did_change(document, Head(did_change_queue))} :
       \E notified \in {notify_document_content_change(active_cursor_states,
                                                         out.change_transaction,
                                                         out.document.source)} :
          /\ document' = out.document
          /\ IF observer_registered
             THEN /\ active_cursor_states' = notified.active_cursor_states
                  /\ queue' = IF notified.do_request_cursor_repair
                              THEN Append(queue, REQUEST_CURSOR_REPAIR)
                              ELSE queue
                  /\ folded' = Some([params |-> Head(did_change_queue),
                                     change |-> out.change_transaction,
                                     from_document |-> document,
                                     before |-> active_cursor_states,
                                     requested |-> notified.do_request_cursor_repair])
             ELSE /\ UNCHANGED <<active_cursor_states, queue>>
                  /\ folded' = None
    /\ did_change_queue' = Tail(did_change_queue)
    /\ UNCHANGED <<idle_vars, client_source, client_version, edit_vars,
                   last_known_cursor_pos, eol_sequence, driver_vars, run_vars,
                   history_vars>>

\* --- run_prapti_text_generation
\* run_phase_2 yields a string
GenYield ==
    /\ DriverSuspended
    /\ enqueue_task = "running"
    /\ Len(produced) < MaxFragments
    /\ \E item \in {GeneratorOutput[(Len(produced) % Len(GeneratorOutput)) + 1]} :
          /\ queue' = Append(queue, TextItem(rewrite_eol_sequence(eol_sequence, item)))
          /\ produced' = Append(produced, rewrite_eol_sequence(eol_sequence, item))
    /\ folded' = None
    /\ UNCHANGED <<idle_vars, client_vars, edit_vars, document, inserter_vars, eol_sequence,
                   driver_vars, run_vars, inserted, client_edits, rejects>>

\* run_phase_2 yields its CompletionSentinel: return, through "finally"
GenComplete ==
    /\ DriverSuspended
    /\ enqueue_task = "running"
    /\ enqueue_task' = "returned"
    /\ queue' = Append(queue, END_OF_STREAM)
    /\ folded' = None
    /\ UNCHANGED <<idle_vars, client_vars, edit_vars, document, inserter_vars, eol_sequence,
                   driver_vars, run_state, observer_registered, run_raised, history_vars>>

\* run_phase_1 or run_phase_2 raises: the exception leaves the task,
\* through "finally"
GenError ==
    /\ DriverSuspended
    /\ enqueue_task = "running"
    /\ enqueue_task' = "raised"
    /\ queue' = Append(queue, END_OF_STREAM)
    /\ folded' = None
    /\ UNCHANGED <<idle_vars, client_vars, edit_vars, document, inserter_vars, eol_sequence,
                   driver_vars, run_state, observer_registered, run_raised, history_vars>>

\* --- LsPraptiRun.run
\* asyncio.gather ends: with the first exception of a task, at once, or when
\* both tasks have returned; then the "finally" of run
RunEnd ==
    /\ DriverSuspended
    /\ run_state # STOPPED
    /\ \/ /\ enqueue_task = "raised" \/ pc = "failed"
          /\ run_raised' = TRUE
       \/ /\ enqueue_task = "returned" /\ pc = "done"
          /\ run_raised' = FALSE
    /\ observer_registered' = FALSE
    /\ run_state' = STOPPED
    /\ folded' = None
    /\ UNCHANGED <<idle_vars, client_vars, edit_vars, document, inserter_vars, queue,
                   eol_sequence, driver_vars, enqueue_task, history_vars>>

\* stop_prapti finds the run in the active-run map and awaits
\* LsPraptiRun.cancel, which has no await of its own: a run that is not
\* RUNNING is left alone, a RUNNING one is set to STOPPING and its token is
\* cancelled (the token is cancelled exactly while the run is STOPPING)
Cancel ==
    /\ DriverSuspended
    /\ run_state' = IF run_state = RUNNING THEN STOPPING ELSE run_state
    /\ folded' = None
    /\ UNCHANGED <<idle_vars, client_vars, edit_vars, document, inserter_vars, queue,
                   eol_sequence, driver_vars, enqueue_task, observer_registered,
                   run_raised, history_vars>>

Next ==
    \/ Pull
    \/ Unblock
    \/ TryInsertText
    \/ InsertResponse
    \/ Wake
    \/ TryRemoveCursorSequence
    \/ RemoveResponse
    \/ ClientApplyEdit
    \/ ClientRefuseEdit
    \/ UserEdit
    \/ ClientCoalesce
    \/ DidChange
    \/ GenYield
    \/ GenComplete
    \/ GenError
    \/ RunEnd
    \/ Cancel

Spec == Init /\ [][Next]_vars

\* ------------------------------------------------------------ SpecTyping
\* the scenario "user types before cursor during insert": a TextInserter
\* made for the document "abc" with the cursor at its end and eol_sequence
\* "\n" has submitted the fragment "X"; the user has typed "Z" at (0,0)
\* before the client has looked at the request
TypingSource == <<"a", "b", "c">>
TypingFragment == <<"X">>
TypingCursor == CursorDescription(Position(0, 3), FALSE, FALSE)
TypingEdit == insert_text_edit(TypingCursor, TypingFragment, <<LF>>)
TypingUserEvent == Type1(Range(Position(0, 0), Position(0, 0)), <<"Z">>)
TypingInit ==
    /\ dx_document = TextDocument(<<>>, 0)
    /\ dx_params = DidChangeParams(0, <<>>)
    /\ dx_out = None
    /\ dx_diff = None
    /\ ServerIdle
    /\ client_source = apply_change(TypingSource, TypingUserEvent)
    /\ client_version = 2
    /\ did_change_queue = <<DidChangeParams(2, <<TypingUserEvent>>)>>
    /\ apply_edit_request = Some([version |-> 1, edits |-> TypingEdit.text_edits])
    /\ apply_edit_response = None
    /\ document = TextDocument(TypingSource, 1)
    /\ active_cursor_states =
           fork_cursor_states(<<CursorState(TypingCursor, 1, None)>>,
                              TypingEdit.text_edits, TypingEdit.cursor_upon_success)
    /\ last_known_cursor_pos = Some(TypingCursor.position)
    /\ queue = <<>>
    /\ eol_sequence = <<LF>>
    /\ pc = "await_insert"
    /\ pending = TypingFragment
    /\ repair_cursor = TRUE
    /\ at_end = FALSE
    /\ enqueue_task = "running"
    /\ run_state = RUNNING
    /\ observer_registered = TRUE
    /\ run_raised = FALSE
    /\ produced = <<TypingFragment>>
    /\ inserted = <<>>
    /\ client_edits = 0
    /\ rejects = 0
    /\ folded = None

SpecTyping == TypingInit /\ [][Next]_vars

\* ------------------------------------------------------------ SpecFold
\* one didChange notification delivered to an inserter that is not in the
\* middle of a step: the notification, the document and the cursor states
\* are drawn from the cases below
FoldSources == TextsUpTo({"a", CURSOR_CHAR, LF}, MaxFoldLen)
\* what the user types or pastes over a range
FoldTexts == {<<>>, <<"Y">>, <<CURSOR_CHAR>>, <<"Y", CURSOR_CHAR>>}
FoldEvents(s) ==
    {Type1(Range(client_pos_from_index(s, i), client_pos_from_index(s, j)), t) :
        <<i, j, t>> \in {x \in (0..Len(s)) \X (0..Len(s)) \X FoldTexts :
                            x[1] <= x[2] /\ ~(x[1] = x[2] /\ x[3] = <<>>)}}
FoldCase(document_, states, params) ==
    [document |-> document_, states |-> states, params |-> params]
\* a cursor state without pending update, its flags as the last fold left
\* them, and one event of the user
PlainCases ==
    UNION {UNION {{FoldCase(TextDocument(s, 1),
                            <<CursorState(inspect_cursor(s, p), 1, None)>>,
                            DidChangeParams(2, <<e>>)) : e \in FoldEvents(s)}
                  : p \in PositionsOf(s)}
           : s \in FoldSources}
\* try_insert_text has submitted `text` at `cursor` for the document s at
\* version v; the client has applied the edit, the user has made the changes
\* `trailing`, and the client notifies all of it at once
MergedCase(s, v, cursor, text, trailing, in_flight) ==
    LET edit == insert_text_edit(cursor, text, <<LF>>)
        forked == fork_cursor_states(<<CursorState(cursor, v, None)>>,
                                     edit.text_edits, edit.cursor_upon_success)
    IN  FoldCase(TextDocument(s, v),
                 IF in_flight THEN forked ELSE collapse_cursor_states(forked, TRUE),
                 DidChangeParams(v + 1 + Len(trailing),
                     <<Type1(edit.text_edits[1].range, edit.text_edits[1].new_text)>>
                         \o trailing))
\* the document after the edit of try_insert_text
AfterInsert(s, cursor, text) ==
    apply_change(s, Type1(Range(cursor.position, cursor.position),
                          insert_text_edit(cursor, text, <<LF>>).new_text))
MergedSources == TextsUpTo({"a", LF}, MaxFoldLen - 1)
MergedCases ==
    UNION {UNION {{MergedCase(s, 1, CursorDescription(p, FALSE, FALSE), <<"H">>,
                              <<e>>, in_flight) :
                      <<e, in_flight>> \in
                          FoldEvents(AfterInsert(s, CursorDescription(p, FALSE, FALSE),
                                                 <<"H">>)) \X BOOLEAN}
                  : p \in PositionsOf(s)}
           : s \in MergedSources}
\* the scenario "merged transaction": the pending edit (v3 to v4) inserts
\* "H" + glyph + "\n" at (0,0); the transaction (v3 to v5) is that insert
\* followed by an insert of "!" at (0,3)
MergedScenario ==
    MergedCase(<<>>, 3, CursorDescription(Position(0, 0), FALSE, FALSE), <<"H">>,
               <<Type1(Range(Position(0, 3), Position(0, 3)), <<"!">>)>>, FALSE)
\* notifications a client should not send: a version that is not above the
\* document's, or an event whose range is on lines past the last line
OutsideEvents(s) ==
    {Type1(Range(Position(count_all(s, LF) + 1, 0), Position(count_all(s, LF) + k, 0)), t) :
        <<k, t>> \in {1, 2} \X {<<"Y">>, <<CURSOR_CHAR>>}}
MalformedCases ==
    UNION {UNION {{FoldCase(TextDocument(s, 1),
                            <<CursorState(inspect_cursor(s, p), 1, None)>>,
                            params) :
                      params \in {DidChangeParams(v, <<e>>) :
                                     <<v, e>> \in {0, 1} \X FoldEvents(s)}
                                 \cup {DidChangeParams(2, <<e>>) : e \in OutsideEvents(s)}}
                  : p \in PositionsOf(s)}
           : s \in MergedSources}
\* events that replace a range of s by one of `texts`
EventsOver(s, texts) ==
    {Type1(Range(client_pos_from_index(s, i), client_pos_from_index(s, j)), t) :
        <<i, j, t>> \in {x \in (0..Len(s)) \X (0..Len(s)) \X texts :
                            x[1] <= x[2] /\ ~(x[1] = x[2] /\ x[3] = <<>>)}}
\* texts of several lines
MultilineTexts == {<<LF>>, <<LF, "Y">>, <<"Y", LF, CURSOR_CHAR>>}
MultilineCases ==
    UNION {UNION {{FoldCase(TextDocument(s, 1),
                            <<CursorState(inspect_cursor(s, p), 1, None)>>,
                            DidChangeParams(2, <<e>>)) : e \in EventsOver(s, MultilineTexts)}
                  : p \in PositionsOf(s)}
           : s \in FoldSources}
\* try_insert_text has submitted "H" at `cursor` for the document s at
\* version 1, and the client notifies a transaction from version 1 to
\* version 3 that does not begin with that edit: what the server inserts and
\* what the user types arrive merged or in another order
MismatchSources == TextsUpTo({"a", CURSOR_CHAR, LF}, MaxFoldLen - 1)
MismatchTexts == FoldTexts \cup {<<"Y", "H", CURSOR_CHAR, LF>>, <<LF, CURSOR_CHAR>>}
MismatchCase(s, cursor, events, in_flight) ==
    LET edit == insert_text_edit(cursor, <<"H">>, <<LF>>)
        forked == fork_cursor_states(<<CursorState(cursor, 1, None)>>,
                                     edit.text_edits, edit.cursor_upon_success)
    IN  FoldCase(TextDocument(s, 1),
                 IF in_flight THEN forked ELSE collapse_cursor_states(forked, TRUE),
                 DidChangeParams(3, events))
\* two events: an insert at the cursor, then an event over the text it leaves
InsertThenEvent(s, p) ==
    UNION {{<<e1, e2>> : e2 \in EventsOver(apply_change(s, e1), {<<"Y">>, <<CURSOR_CHAR>>})}
           : e1 \in {Type1(Range(p, p), t) : t \in MismatchTexts \ {<<>>}}}
MismatchCases ==
    UNION {UNION {{MismatchCase(s, inspect_cursor(s, p), x[1], x[2]) :
                      x \in ({<<e>> : e \in EventsOver(s, MismatchTexts)} \X BOOLEAN)
                            \cup (InsertThenEvent(s, p) \X {FALSE})}
                  : p \in PositionsOf(s)}
           : s \in MismatchSources}
FoldCases == PlainCases \cup MergedCases \cup {MergedScenario} \cup MalformedCases \cup MultilineCases \cup MismatchCases

FoldInit ==
    /\ dx_document = TextDocument(<<>>, 0)
    /\ dx_params = DidChangeParams(0, <<>>)
    /\ dx_out = None
    /\ dx_diff = None
    /\ ServerIdle
    /\ \E c \in FoldCases :
          /\ document = c.document
          /\ active_cursor_states = c.states
          /\ did_change_queue = <<c.params>>
          /\ client_source = apply_changes(c.document.source, c.params.content_changes, 1)
          /\ client_version = c.params.version
          /\ last_known_cursor_pos =
                 IF Len(c.states) = 2 THEN Some(c.states[2].cursor.position) ELSE None
          /\ pc = IF Len(c.states) = 2 THEN "await_insert" ELSE "blocked"
          /\ apply_edit_response = IF Len(c.states) = 2 THEN Some(TRUE) ELSE None
    /\ apply_edit_request = None
    /\ queue = <<>>
    /\ eol_sequence = <<LF>>
    /\ pending = <<>>
    /\ repair_cursor = FALSE
    /\ at_end = FALSE
    /\ enqueue_task = "running"
    /\ run_state = RUNNING
    /\ observer_registered = TRUE
    /\ run_raised = FALSE
    /\ produced = <<>>
    /\ inserted = <<>>
    /\ client_edits = 0
    /\ rejects = 0
    /\ folded = None

FoldNext == DidChange

SpecFold == FoldInit /\ [][FoldNext]_vars

\* ------------------------------------------------------------ SpecServer
\* the commands runPrapti and stopPrapti of the language server, for every
\* document; what goes on inside a run is not looked at here: a run that is
\* awaiting gather ends at some time, normally or with an exception
LsPraptiRun(document_uri, state) == [document_uri |-> document_uri, state |-> state]

\* a test for an active run that never finds one
has_active_run_never(active_runs, document_uri) == FALSE

\* "document_uri in self._active_prapti_runs"
has_active_run(active_runs, document_uri) == active_runs[document_uri] # None

\* list.remove
remove_observer(observers, observer) ==
    LET first == CHOOSE i \in 1..Len(observers) :
                     observers[i] = observer /\ \A j \in 1..(i - 1) : observers[j] # observer
    IN  SubSeq(observers, 1, first - 1) \o SubSeq(observers, first + 1, Len(observers))

ServerInit ==
    /\ dx_document = TextDocument(<<>>, 0)
    /\ dx_params = DidChangeParams(0, <<>>)
    /\ dx_out = None
    /\ dx_diff = None
    /\ ServerIdle
    /\ RunIdle

\* the command runPrapti: asyncio.create_task(ls.run_prapti(document_uri))
RunPraptiCommand ==
    /\ commands < MaxCommands
    /\ commands' = commands + 1
    /\ \E document_uri \in DocumentURIs :
          run_prapti_tasks' = [run_prapti_tasks EXCEPT ![document_uri] = @ + 1]
    /\ UNCHANGED <<_active_prapti_runs, prapti_runs, _observers>>
    /\ UNCHANGED <<dx_vars, client_vars, edit_vars, document, inserter_vars, queue,
                   eol_sequence, driver_vars, run_vars, history_vars, folded>>

\* a run_prapti task starts and runs to its first suspension: it returns if
\* the document has an active run; else it makes an LsPraptiRun, puts it into
\* the map and awaits its run(), which registers the inserter, sets RUNNING
\* and awaits gather, or which raises before that (detect_eol_sequence does
\* for a document without a line end), the "finally" of run_prapti deleting
\* the entry again
RunPraptiTask ==
    /\ \E document_uri \in DocumentURIs :
          /\ run_prapti_tasks[document_uri] > 0
          /\ run_prapti_tasks' = [run_prapti_tasks EXCEPT ![document_uri] = @ - 1]
          /\ IF has_active_run(_active_prapti_runs, document_uri)
             THEN UNCHANGED <<_active_prapti_runs, prapti_runs, _observers>>
             ELSE \E raises \in BOOLEAN :
                     IF raises
                     THEN /\ prapti_runs' =
                                 Append(prapti_runs, LsPraptiRun(document_uri, INITIALISED))
                          /\ UNCHANGED <<_active_prapti_runs, _observers>>
                     ELSE /\ prapti_runs' =
                                 Append(prapti_runs, LsPraptiRun(document_uri, RUNNING))
                          /\ _active_prapti_runs' =
                                 [_active_prapti_runs EXCEPT
                                     ![document_uri] = Some(Len(prapti_runs) + 1)]
                          /\ _observers' =
                                 [_observers EXCEPT
                                     ![document_uri] = Append(@, Len(prapti_runs) + 1)]
    /\ UNCHANGED commands
    /\ UNCHANGED <<dx_vars, client_vars, edit_vars, document, inserter_vars, queue,
                   eol_sequence, driver_vars, run_vars, history_vars, folded>>

\* gather returns or raises in a run: the "finally" of LsPraptiRun.run
\* unregisters the inserter and sets STOPPED, the "finally" of run_prapti
\* deletes the entry
RunPraptiEnds ==
    /\ \E document_uri \in DocumentURIs :
          /\ _active_prapti_runs[document_uri] # None
          /\ LET prapti_run == The(_active_prapti_runs[document_uri])
             IN  /\ _observers' =
                        [_observers EXCEPT
                            ![document_uri] = remove_observer(@, prapti_run)]
                 /\ prapti_runs' = [prapti_runs EXCEPT ![prapti_run].state = STOPPED]
          /\ _active_prapti_runs' = [_active_prapti_runs EXCEPT ![document_uri] = None]
    /\ UNCHANGED <<run_prapti_tasks, commands>>
    /\ UNCHANGED <<dx_vars, client_vars, edit_vars, document, inserter_vars, queue,
                   eol_sequence, driver_vars, run_vars, history_vars, folded>>

\* the command stopPrapti: stop_prapti looks the run up and awaits its
\* cancel, which has no await of its own
StopPraptiCommand ==
    /\ commands < MaxCommands
    /\ commands' = commands + 1
    /\ \E document_uri \in DocumentURIs :
          IF _active_prapti_runs[document_uri] # None
          THEN LET prapti_run == The(_active_prapti_runs[document_uri])
               IN  prapti_runs' =
                       [prapti_runs EXCEPT ![prapti_run].state =
                           IF @ = RUNNING THEN STOPPING ELSE @]
          ELSE UNCHANGED prapti_runs
    /\ UNCHANGED <<_active_prapti_runs, _observers, run_prapti_tasks>>
    /\ UNCHANGED <<dx_vars, client_vars, edit_vars, document, inserter_vars, queue,
                   eol_sequence, driver_vars, run_vars, history_vars, folded>>

ServerNext ==
    \/ RunPraptiCommand
    \/ RunPraptiTask
    \/ RunPraptiEnds
    \/ StopPraptiCommand

SpecServer == ServerInit /\ [][ServerNext]_vars

\* ------------------------------------------------------------ SpecRunStart
\* LsPraptiRun.run from its call to its await of gather, on any document
StartSources == TextsUpTo({"a", CR, LF}, MaxStartLen)
RunStartInit ==
    /\ dx_document = TextDocument(<<>>, 0)
    /\ dx_params = DidChangeParams(0, <<>>)
    /\ dx_out = None
    /\ dx_diff = None
    /\ ServerIdle
    /\ \E source \in StartSources :
          /\ client_source = source
          /\ document = TextDocument(source, 1)
    /\ client_version = 1
    /\ did_change_queue = <<>>
    /\ apply_edit_request = None
    /\ apply_edit_response = None
    /\ active_cursor_states = <<>>
    /\ last_known_cursor_pos = None
    /\ queue = <<>>
    /\ eol_sequence = <<>>
    /\ pc = "idle"
    /\ pending = <<>>
    /\ repair_cursor = FALSE
    /\ at_end = FALSE
    /\ enqueue_task = "idle"
    /\ run_state = INITIALISED
    /\ observer_registered = FALSE
    /\ run_raised = FALSE
    /\ produced = <<>>
    /\ inserted = <<>>
    /\ client_edits = 0
    /\ rejects = 0
    /\ folded = None

\* the end-of-line sequence is detected; if that raises, run is left with
\* the exception before anything is set up; else the inserter is made and
\* registered, the two tasks are created and the run is RUNNING
RunStart ==
    /\ run_state = INITIALISED
    /\ ~run_raised
    /\ \E eol \in {detect_eol_sequence(document.source)} :
          /\ eol_sequence' = eol
          /\ IF eol = NameError
             THEN /\ run_raised' = TRUE
                  /\ UNCHANGED <<active_cursor_states, pc, repair_cursor, enqueue_task,
                                 run_state, observer_registered>>
             ELSE /\ active_cursor_states' =
                         <<CursorState(
                               CursorDescription(make_end_of_file_position(document.source),
                                                 FALSE, FALSE),
                               document.version, None)>>
                  /\ pc' = "pull"
                  /\ repair_cursor' = TRUE
                  /\ enqueue_task' = "running"
                  /\ run_state' = RUNNING
                  /\ observer_registered' = TRUE
                  /\ run_raised' = FALSE
    /\ UNCHANGED <<idle_vars, client_vars, edit_vars, document, last_known_cursor_pos,
                   queue, pending, at_end, history_vars, folded>>

RunStartNext == RunStart

SpecRunStart == RunStartInit /\ [][RunStartNext]_vars

\* ------------------------------------------------------------ SpecEdit
\* insert_queued_text at the top of its loop with an item on the queue or a
\* cursor to repair, up to the await of the edit it submits: the document,
\* the cursor (its flags as a fold leaves them), what is on the queue and the
\* end-of-line sequence are drawn from the cases below
EditSources == FoldSources
EditItems == {TextItem(<<"x">>), TextItem(<<"x", LF, WIDE>>), REQUEST_CURSOR_REPAIR,
              END_OF_STREAM}
\* END_OF_STREAM is the last item that the generator task puts
EditQueues ==
    {q \in UNION {[1..k -> EditItems] : k \in 0..MaxQueued} :
        \A i \in 1..(Len(q) - 1) : q[i] # END_OF_STREAM}
EditInit ==
    /\ dx_document = TextDocument(<<>>, 0)
    /\ dx_params = DidChangeParams(0, <<>>)
    /\ dx_out = None
    /\ dx_diff = None
    /\ ServerIdle
    /\ \E source \in EditSources :
          /\ client_source = source
          /\ document = TextDocument(source, 1)
          /\ \E p \in PositionsOf(source) :
                active_cursor_states = <<CursorState(inspect_cursor(source, p), 1, None)>>
    /\ client_version = 1
    /\ did_change_queue = <<>>
    /\ apply_edit_request = None
    /\ apply_edit_response = None
    /\ last_known_cursor_pos = None
    /\ queue \in EditQueues
    /\ eol_sequence \in {<<LF>>, <<CR, LF>>}
    /\ pc = "pull"
    /\ pending = <<>>
    /\ repair_cursor \in BOOLEAN
    /\ (queue # <<>> \/ repair_cursor)
    /\ at_end = FALSE
    /\ enqueue_task = "running"
    /\ run_state = RUNNING
    /\ observer_registered = TRUE
    /\ run_raised = FALSE
    /\ produced = <<>>
    /\ inserted = <<>>
    /\ client_edits = 0
    /\ rejects = 0
    /\ folded = None

EditNext ==
    \/ Pull
    \/ TryInsertText
    \/ TryRemoveCursorSequence

SpecEdit == EditInit /\ [][EditNext]_vars

\* insert_queued_text is one task: one of its steps can be taken at a time
InsertQueuedText ==
    \/ Pull
    \/ Unblock
    \/ TryInsertText
    \/ InsertResponse
    \/ Wake
    \/ TryRemoveCursorSequence
    \/ RemoveResponse
ClientAnswers == ClientApplyEdit \/ ClientRefuseEdit

\* when the didChange handler can run: its guard
DidChangeEnabled == DriverSuspended /\ did_change_queue # <<>>

\* asyncio runs every task that can run; whenever the driver is suspended
\* the loop serves what has arrived, so the client's answers, its change
\* notifications (strong fairness of DidChange, with its guard written out)
\* and the end of gather come through even if the driver keeps waking up;
\* the user and the generator are under no obligation
FairSpec ==
    /\ Spec
    /\ WF_vars(InsertQueuedText)
    /\ SF_vars(ClientAnswers)
    /\ <>[]~DidChangeEnabled \/ []<><<DidChange>>_vars
    /\ SF_vars(RunEnd)

\* ------------------------------------------------------------ claims: Spec
RECURSIVE Concat(_)
Concat(texts) == IF texts = <<>> THEN <<>> ELSE Head(texts) \o Concat(Tail(texts))
QueuedText == Concat([i \in 1..Len(queue) |-> queue[i].text])
\* the pending text is in the document once the client has applied the edit
\* that carries it
PendingApplied == pc = "await_insert" /\ apply_edit_response = Some(TRUE)
Awaiting == pc \in {"await_insert", "await_remove"}
SuspensionPoint == pc \in {"blocked", "await_insert", "sleep_insert",
                           "await_remove", "sleep_remove"}

\* C1: without client edits, the texts of the successfully applied edits,
\* without their cursor-repair suffix and in submission order, followed by
\* the text still pending and the text still queued, are the fragments put on
\* the queue, in order: nothing is inserted twice, lost or reordered, also
\* after refused attempts; and when the driver has finished, all of it is
\* inserted.
C1_FragmentsInsertedOnceInOrder ==
    client_edits = 0 =>
        /\ inserted \o (IF PendingApplied THEN <<>> ELSE pending) \o QueuedText
               = Concat(produced)
        /\ pc = "done" => inserted = Concat(produced)

C1_Witness ==
    /\ client_edits = 0
    /\ rejects > 0
    /\ pc = "done"
    /\ Len(produced) = MaxFragments
    /\ inserted = Concat(produced)

\* C4: at every suspension point of the driver there is one active cursor
\* state, except while it awaits the applyEdit response, where there are two;
\* a didChange notification finds one or two, and two only while an edit is
\* in flight.
C4_CursorCount ==
    /\ SuspensionPoint => Len(active_cursor_states) = IF Awaiting THEN 2 ELSE 1
    /\ folded # None =>
          /\ Len(The(folded).before) \in {1, 2}
          /\ Len(The(folded).before) = 2 => Awaiting

C4_Witness ==
    /\ pc = "await_insert"
    /\ folded # None
    /\ Len(The(folded).before) = 2
    /\ Len(active_cursor_states) = 2

\* C8: after a change transaction is folded, every active cursor state is at
\* the transaction's to_document_version.
C8_AtVersionAfterFold ==
    folded # None =>
        \A i \in 1..Len(active_cursor_states) :
            active_cursor_states[i].at_document_version
                = The(folded).change.to_document_version

\* C9: after a change transaction is folded, has_cursor_char and has_eol of
\* every active cursor state are what an inspection of the new document at
\* the cursor's position finds.
C9_FlagsAfterFold ==
    folded # None =>
        \A i \in 1..Len(active_cursor_states) :
            active_cursor_states[i].cursor
                = inspect_cursor(document.source, active_cursor_states[i].cursor.position)

\* the document after the first k events of a notification
TextAfter(source, params, k) ==
    apply_changes(source, SubSeq(params.content_changes, 1, k), 1)
\* the events of a notification that change the text
ChangingEvents(source, params) ==
    {k \in 1..Len(params.content_changes) :
        TextAfter(source, params, k - 1) # TextAfter(source, params, k)}

\* C10: the recorded changes of a transaction chain from the document before
\* the notification to the document after it, the versions are those of the
\* document before and after, exactly the events that change the text are
\* recorded, and the transaction is delivered whatever is recorded.
C10_TransactionChain ==
    folded # None =>
        LET f == The(folded)
            cs == f.change.content_changes
        IN  /\ f.change.from_document_version = f.from_document.version
            /\ f.change.to_document_version = document.version
            /\ Len(cs) = Cardinality(ChangingEvents(f.from_document.source, f.params))
            /\ \A i \in 1..Len(cs) : cs[i].from_text # cs[i].to_text
            /\ IF cs = <<>> THEN document.source = f.from_document.source
               ELSE /\ cs[1].from_text = f.from_document.source
                    /\ \A i \in 1..(Len(cs) - 1) : cs[i].to_text = cs[i + 1].from_text
                    /\ cs[Len(cs)].to_text = document.source

\* a notification of two events, the second one dropped, and one whose
\* events are all dropped
C10_Witness ==
    /\ folded # None
    /\ Len(The(folded).params.content_changes) = 2
    /\ Len(The(folded).change.content_changes) = 1

C10_WitnessEmpty ==
    /\ folded # None
    /\ The(folded).params.content_changes # <<>>
    /\ The(folded).change.content_changes = <<>>

EndOfStreamEnqueued == enqueue_task \in {"returned", "raised"}
\* insert_queued_text has returned: it has left its clean-up loop, after a
\* try_remove_cursor_sequence that returned True
DriverReturned == pc = "done"

\* C2: once END_OF_STREAM is enqueued, insert_queued_text eventually returns,
\* its last try_remove_cursor_sequence having succeeded.
C2_EventuallyTerminates == EndOfStreamEnqueued ~> DriverReturned

\* C3: the run does not end with an exception, and the inserter stays
\* registered for didChange notifications until the driver has finished.
C3_NoErrorPastRunBoundary ==
    /\ ~run_raised
    /\ ~observer_registered => pc = "done"

\* the last step folded the didChange of the removal of the cursor sequence,
\* which the client has applied
IsRemoval(cursor_state) ==
    /\ cursor_state.pending_update # None
    /\ The(cursor_state.pending_update).text_edits[1].new_text = <<>>
RemovalFolded ==
    /\ folded # None
    /\ \/ pc = "done"
       \/ pc = "await_remove" /\ apply_edit_response = Some(TRUE)
    /\ IsRemoval(The(folded).before[1])
    /\ reconcile_branch(The(folded).before[1], The(folded).change) = "version_match"
\* the cursor states a second try_remove_cursor_sequence finds
AfterRemoval ==
    IF Len(active_cursor_states) = 2
    THEN collapse_cursor_states(active_cursor_states, TRUE)
    ELSE active_cursor_states

\* C11: after a try_remove_cursor_sequence has been applied and its didChange
\* folded, a second try_remove_cursor_sequence passes try_begin_edit and finds
\* nothing to remove: it returns success without submitting an edit
C11_RemoveTwiceIsRemoveOnce ==
    RemovalFolded =>
        /\ Len(AfterRemoval) = 1
        /\ try_begin_edit(AfterRemoval, document) = "ok"
        /\ remove_cursor_edit(AfterRemoval[1].cursor).nothing_to_remove
C11_Witness == RemovalFolded /\ pc = "done" /\ inserted # <<>>

\* what get_cursor_pos returns in a state
CursorPos == get_cursor_pos(active_cursor_states, last_known_cursor_pos)

\* C14: with one active cursor state get_cursor_pos returns its position;
\* with two, last_known_cursor_pos is set and get_cursor_pos returns the
\* position the single state had when the edit was submitted, whatever is
\* folded while the edit is in flight
C14_GetCursorPosHidesFork ==
    [][/\ Len(active_cursor_states') = 1 =>
              CursorPos' = active_cursor_states'[1].cursor.position
       /\ Len(active_cursor_states') = 2 =>
              /\ last_known_cursor_pos' # None
              /\ CursorPos' = IF Len(active_cursor_states) = 2 THEN CursorPos
                              ELSE active_cursor_states[1].cursor.position]_vars
\* a didChange folded while the edit is in flight has moved the success path
C14_Witness ==
    /\ Len(active_cursor_states) = 2
    /\ folded # None
    /\ active_cursor_states[1].cursor.position # CursorPos
    /\ active_cursor_states[2].cursor.position # CursorPos

\* the step in which apply_edit_async returns
ResponseStep == pc \in {"await_insert", "await_remove"} /\ pc' # pc
\* a folded record whose transaction is the pending update of the first
\* cursor state before the fold, matched by version
OwnEditFolded(f) ==
    /\ f # None
    /\ The(f).before[1].pending_update # None
    /\ reconcile_branch(The(f).before[1], The(f).change) = "version_match"
\* the cursor upon success of that pending update, at its target version
UponSuccess(f) ==
    LET u == The(The(f).before[1].pending_update)
    IN  CursorState(u.cursor, u.to_document_version, None)

\* C15: when the client has applied the edit and the didChange of exactly
\* that edit is folded, the single cursor state left is the cursor upon
\* success at the next version without pending update, whether the didChange
\* is folded before the response returns or after it; when the client has
\* refused, the state left is the failure path, which has no pending update
\* and into which every transaction delivered meanwhile was folded whole
C15_AcknowledgementOrder ==
    [][/\ (ResponseStep /\ apply_edit_response = Some(TRUE) /\ OwnEditFolded(folded)) =>
              active_cursor_states' = <<UponSuccess(folded)>>
       /\ (OwnEditFolded(folded') /\ Len(The(folded').before) = 1) =>
              active_cursor_states' = <<UponSuccess(folded')>>
       /\ (ResponseStep /\ apply_edit_response = Some(FALSE)) =>
              /\ active_cursor_states' = <<active_cursor_states[2]>>
              /\ active_cursor_states[2].pending_update = None
       /\ (folded' # None /\ Len(The(folded').before) = 2) =>
              LET before == The(folded').before[2]
                  after == active_cursor_states'[2]
              IN  /\ before.pending_update = None
                  /\ after.pending_update = None
                  /\ after.at_document_version = document'.version
                  /\ after.cursor.position =
                         compute_updated_cursor_position(before.cursor.position,
                             before.cursor.has_cursor_char, FALSE, The(folded').change)]_vars
\* the didChange of the applied edit is folded and the response is still to
\* come
C15_Witness ==
    /\ OwnEditFolded(folded)
    /\ Len(active_cursor_states) = 2
    /\ apply_edit_response = Some(TRUE)
\* the response came first
C15_WitnessResponseFirst == OwnEditFolded(folded) /\ Len(The(folded).before) = 1
\* the client refused and a transaction was folded meanwhile
C15_WitnessRefused ==
    /\ folded # None
    /\ Len(active_cursor_states) = 2
    /\ apply_edit_response = Some(FALSE)

\* the step in which try_apply_edits submits a workspace edit
SubmitStep == Len(active_cursor_states) = 1 /\ Len(active_cursor_states') = 2
\* the step in which the client applies the edit
ApplyStep == apply_edit_request # None /\ apply_edit_response' = Some(TRUE)

\* C16: try_insert_text and try_remove_cursor_sequence, called while the
\* single cursor state has a pending update, fail (the driver goes to sleep)
\* and submit nothing; an edit is submitted only from a cursor state without
\* pending update at the document's version; and when the client applies an
\* edit every didChange before it has been folded
C16_NoSubmitWhilePending ==
    [][/\ (/\ pc \in {"insert", "remove"}
           /\ ~(pc = "insert" /\ at_end /\ pending = <<>>)
           /\ Len(active_cursor_states) = 1
           /\ active_cursor_states[1].pending_update # None) =>
              /\ pc' = (IF pc = "insert" THEN "sleep_insert" ELSE "sleep_remove")
              /\ UNCHANGED <<inserter_vars, edit_vars, document>>
       /\ SubmitStep =>
              /\ active_cursor_states[1].pending_update = None
              /\ active_cursor_states[1].at_document_version = document.version
              /\ apply_edit_request = None
       /\ ApplyStep =>
              /\ did_change_queue = <<>>
              /\ document.version = client_version
              /\ active_cursor_states[2].pending_update = None
              /\ active_cursor_states[2].at_document_version = client_version]_vars
\* the driver found the pending update of the edit before and sleeps
C16_Witness ==
    /\ pc \in {"sleep_insert", "sleep_remove"}
    /\ Len(active_cursor_states) = 1
    /\ active_cursor_states[1].pending_update # None

\* the cursor states of which the last fold took the glyph away: the state
\* was on the glyph before, it is not after, and no pending update was adopted
GlyphLost(i) ==
    /\ reconcile_branch(The(folded).before[i], The(folded).change)
           \in {"no_pending", "stale", "mismatch", "spanned", "future"}
    /\ The(folded).before[i].cursor.has_cursor_char
    /\ ~active_cursor_states[i].cursor.has_cursor_char

\* C19: when a folded transaction takes the cursor glyph away from a cursor
\* state (has_cursor_char turns false), REQUEST_CURSOR_REPAIR is put on the
\* queue
C19_RepairRequestedWhenGlyphLost ==
    (folded # None /\ \E i \in 1..Len(active_cursor_states) : GlyphLost(i)) =>
        /\ The(folded).requested
        /\ queue # <<>>
        /\ queue[Len(queue)] = REQUEST_CURSOR_REPAIR

\* how often END_OF_STREAM was put on the queue: those still on it and the
\* one the driver has read
EndOfStreamCount ==
    Cardinality({i \in 1..Len(queue) : queue[i] = END_OF_STREAM})
        + (IF at_end THEN 1 ELSE 0)
\* cancel on a RUNNING run sets STOPPING, any other cancel changes nothing,
\* and no step takes a run back
CancelSteps ==
    /\ Cancel =>
           /\ run_state' = IF run_state = RUNNING THEN STOPPING ELSE run_state
           /\ UNCHANGED <<client_vars, edit_vars, document, inserter_vars, queue,
                          driver_vars, enqueue_task, observer_registered, run_raised>>
    /\ run_state = STOPPING => run_state' \in {STOPPING, STOPPED}
    /\ run_state = STOPPED => run_state' = STOPPED
    /\ run_state' # INITIALISED
\* END_OF_STREAM is enqueued when the enqueue task ends, once
EndOfStreamOnce == EndOfStreamCount' = (IF enqueue_task' = "running" THEN 0 ELSE 1)
\* a cancelled run whose generator has stopped and returned gets to STOPPED
\* after the driver has drained the queue and removed the cursor sequence
StoppedAfterCleanup ==
    (run_state = STOPPING /\ run_state' = STOPPED /\ enqueue_task = "returned") =>
        /\ pc = "done"
        /\ queue = <<>>
        /\ pending = <<>>
        /\ ~run_raised'
C13_CancelSafety == [][CancelSteps /\ EndOfStreamOnce]_vars

\* C13: the first cancel of a RUNNING run sets STOPPING, further cancels
\* change nothing, no run goes back from STOPPING or STOPPED, END_OF_STREAM
\* is enqueued once, and a cancelled run reaches STOPPED after the driver has
\* drained the queue and removed the cursor sequence
C13_CancelIdempotent == [][CancelSteps /\ EndOfStreamOnce /\ StoppedAfterCleanup]_vars

\* the cursor states whose pending update the last fold matched by version
VersionMatched(i) ==
    reconcile_branch(The(folded).before[i], The(folded).change) = "version_match"

\* C23: a cursor state whose pending update has the from and to versions of
\* the transaction becomes the cursor of the pending update, position and
\* flags, at the to version of the transaction and without pending update,
\* whatever the changes of the transaction are; and when every cursor state
\* is matched so, no cursor repair is requested
C23_VersionMatch ==
    folded # None =>
        /\ \A i \in 1..Len(active_cursor_states) :
               VersionMatched(i) =>
                   active_cursor_states[i] =
                       CursorState(The(The(folded).before[i].pending_update).cursor,
                                   The(folded).change.to_document_version, None)
        /\ (\A i \in 1..Len(active_cursor_states) : VersionMatched(i)) =>
               ~The(folded).requested
\* the match by version of a state on its own, whose pending cursor is
\* elsewhere than the cursor was
C23_Witness ==
    /\ folded # None
    /\ Len(active_cursor_states) = 1
    /\ VersionMatched(1)
    /\ active_cursor_states[1].cursor.position # The(folded).before[1].cursor.position

\* the cursor state i of the fold f was folded by position arithmetic (its
\* pending update, if any, was not matched whole), and the cursor the
\* arithmetic started from: the cursor of the pending update when the first
\* changes of the transaction matched it, else the cursor of the state
FoldedByArithmetic(f, i) ==
    reconcile_branch(f.before[i], f.change) \notin {"version_match", "content_match"}
ArithmeticStart(f, i) ==
    IF reconcile_branch(f.before[i], f.change) = "content_match_prefix"
    THEN The(f.before[i].pending_update).cursor
    ELSE f.before[i].cursor
\* some cursor state had the glyph where the arithmetic started and has it
\* where the arithmetic ended
GlyphBeforeAndAfter(f, after) ==
    \E i \in 1..Len(f.before) :
        /\ FoldedByArithmetic(f, i)
        /\ ArithmeticStart(f, i).has_cursor_char
        /\ after[i].cursor.has_cursor_char

\* C31: a fold puts one REQUEST_CURSOR_REPAIR at the end of the queue when
\* some cursor state folded by position arithmetic had the glyph before and
\* has it after, and leaves the queue as it was otherwise
C31_RepairRequest ==
    [][folded' # None =>
          queue' = IF GlyphBeforeAndAfter(The(folded'), active_cursor_states')
                   THEN Append(queue, REQUEST_CURSOR_REPAIR)
                   ELSE queue]_vars
\* a fold of two cursor states of which only one gives rise to the request
C31_Witness ==
    /\ folded # None
    /\ The(folded).requested
    /\ Len(The(folded).before) = 2
    /\ \E i \in 1..2 : ~(FoldedByArithmetic(The(folded), i)
                          /\ active_cursor_states[i].cursor.has_cursor_char)
    /\ Len(queue) > 0
    /\ queue[Len(queue)] = REQUEST_CURSOR_REPAIR
\* a fold that leaves glyphs at cursors and requests nothing
C31_WitnessNone ==
    /\ folded # None
    /\ ~The(folded).requested
    /\ \E i \in 1..Len(active_cursor_states) : active_cursor_states[i].cursor.has_cursor_char

\* the step is an attempt of try_insert_text that succeeds: the answer
\* applied = true arrives, or there was nothing to insert
InsertSucceeds ==
    \/ pc = "await_insert" /\ apply_edit_response = Some(TRUE)
    \/ /\ pc = "insert"
       /\ try_begin_edit(active_cursor_states, document) = "ok"
       /\ insert_text_edit(active_cursor_states[1].cursor, pending, eol_sequence).new_text
              = <<>>
\* once END_OF_STREAM is read nothing is taken from the queue
NothingPulledAtEnd ==
    at_end /\ queue' # queue =>
        /\ Len(queue') > Len(queue)
        /\ SubSeq(queue', 1, Len(queue)) = queue
\* pending text grows by what is pulled and is emptied only by a success, as
\* is the repair flag
PendingKeptUntilSuccess ==
    /\ pending' # pending =>
           \/ pending' = <<>> /\ InsertSucceeds
           \/ /\ ~at_end
              /\ Len(pending') > Len(pending)
              /\ SubSeq(pending', 1, Len(pending)) = pending
    /\ repair_cursor /\ ~repair_cursor' => InsertSucceeds
\* an attempt submits all of the pending text in one edit
PendingCoalesced ==
    pc = "insert" /\ apply_edit_request' # apply_edit_request =>
        without_cursor_repair(The(apply_edit_request').edits[1].new_text) = pending
\* the removal of the cursor sequence starts after END_OF_STREAM, without
\* pending text
RemovalAfterPending ==
    pc \in {"remove", "await_remove", "sleep_remove", "done"} =>
        at_end /\ pending = <<>>
\* what holds of the loop of insert_queued_text
C35_DriverLoop ==
    /\ [][NothingPulledAtEnd /\ PendingKeptUntilSuccess /\ PendingCoalesced]_vars
    /\ []RemovalAfterPending

\* C35: text taken from the queue is not lost: the loop takes nothing from
\* the queue once END_OF_STREAM is read, empties the pending text and the
\* repair flag only upon a successful attempt, submits all of the pending
\* text in one edit, starts removing the cursor sequence only without
\* pending text, and does not end while it holds pending text
C35_PendingTextNeverLost ==
    /\ C35_DriverLoop
    /\ [](pc \in {"done", "failed"} => pending = <<>>)
\* the cursor descriptions of a cursor state: its cursor and the cursor of
\* its pending update
CursorsOf(cursor_state) ==
    {cursor_state.cursor}
        \cup {u.cursor : u \in cursor_state.pending_update}
EolImpliesGlyph(cursor) == cursor.has_eol => cursor.has_cursor_char

\* C36: every cursor description of every cursor state, that of a pending
\* update included, has an end of line only if it has the glyph
C36_EolImpliesGlyph ==
    \A i \in 1..Len(active_cursor_states) :
        \A cursor \in CursorsOf(active_cursor_states[i]) : EolImpliesGlyph(cursor)
\* a fold has found a glyph without end of line at the cursor, and an
\* insertion made for that cursor is pending
C36_Witness ==
    /\ Len(active_cursor_states) = 2
    /\ active_cursor_states[2].cursor.has_cursor_char
    /\ ~active_cursor_states[2].cursor.has_eol
    /\ active_cursor_states[1].pending_update # None
    /\ ~The(active_cursor_states[1].pending_update).cursor.has_eol
\* a removal is pending: its cursor has neither
C36_WitnessRemoval ==
    /\ pc = "await_remove"
    /\ active_cursor_states[1].pending_update # None
    /\ ~The(active_cursor_states[1].pending_update).cursor.has_cursor_char

\* a pending update is from the version of its cursor state, which is the
\* version of the server's document, to the next version
PendingVersions ==
    \A i \in 1..Len(active_cursor_states) :
        \A u \in active_cursor_states[i].pending_update :
            /\ u.from_document_version = active_cursor_states[i].at_document_version
            /\ u.from_document_version = document.version
            /\ u.to_document_version = u.from_document_version + 1
\* a fold leaves no pending update, and takes none of the branches for a
\* pending update that is stale, spanned not at its start, or yet to come
FoldClearsPending ==
    folded # None =>
        \A i \in 1..Len(The(folded).before) :
            /\ active_cursor_states[i].pending_update = None
            /\ reconcile_branch(The(folded).before[i], The(folded).change)
                   \notin {"stale", "spanned", "future"}

\* C37: while a cursor state has a pending update, the update is from the
\* version of the state and of the server's document to the next version;
\* the first fold after its creation clears it, by a branch other than
\* "stale", "spanned" and "future"
C37_PendingVersions == PendingVersions /\ FoldClearsPending
\* what holds while the inserter is notified of the changes of the document
C37_WhileObserving == (observer_registered => PendingVersions) /\ FoldClearsPending

\* try_begin_edit is about to run
BeginEditRuns ==
    \/ pc = "insert" /\ ~(at_end /\ pending = <<>>)
    \/ pc = "remove"

\* C38: when try_begin_edit runs there is one active cursor state and, if
\* it has no pending update, it is at the version of the document: no
\* assertion fails and ends insert_queued_text; and the transaction of every
\* fold ends at the version of the document
C38_AssertionsHold ==
    /\ BeginEditRuns =>
           /\ Len(active_cursor_states) = 1
           /\ active_cursor_states[1].pending_update = None =>
                  active_cursor_states[1].at_document_version = document.version
    /\ pc # "failed"
    /\ folded # None => The(folded).change.to_document_version = document.version

\* the step puts insert_queued_text to wait in queue.get()
BlocksOnQueue == pc # "blocked" /\ pc' = "blocked"
\* the cursor sequence that the first attempt inserts at the end of the file
FirstRepair == <<CURSOR_CHAR>> \o eol_sequence

\* C39: insert_queued_text waits on the queue only without pending text and
\* without repair to make; as the repair flag is set at the start, it does
\* not wait before an attempt of try_insert_text has succeeded, and that
\* attempt has put glyph and end of line into the document, whatever the
\* generator has produced: the client is past the first version and, unless
\* the user has made an edit, its document holds the glyph
C39_RepairBeforeBlocking ==
    /\ [](pc = "blocked" =>
              /\ pending = <<>>
              /\ ~repair_cursor
              /\ client_version > 1
              /\ count_all(client_source, CURSOR_CHAR) + client_edits > 0)
    /\ [][BlocksOnQueue => queue = <<>> /\ pending = <<>> /\ ~repair_cursor]_vars
    /\ [][pc = "pull" /\ (pending # <<>> \/ repair_cursor) /\ ~at_end => pc' = "insert"]_vars
\* the generator has produced nothing, the document has glyph and end of
\* line at its end, and the loop waits for the first fragment
C39_Witness ==
    /\ pc = "blocked"
    /\ produced = <<>>
    /\ client_edits = 0
    /\ document.source = <<"a", LF>> \o FirstRepair
    /\ active_cursor_states[1].cursor = CursorDescription(Position(1, 0), TRUE, TRUE)

\* ------------------------------------------------------------ claims: SpecTyping
\* the scenario has played out: the fragment is in the document, every
\* notification is folded, and neither the user nor the generator has done
\* anything else
TypingSettled ==
    /\ client_edits = 0
    /\ produced = <<TypingFragment>>
    /\ enqueue_task = "running"
    /\ inserted # <<>>
    /\ did_change_queue = <<>>
    /\ Len(active_cursor_states) = 1
    /\ active_cursor_states[1].pending_update = None
TypingDocument == <<"Z", "a", "b", "c", "X", CURSOR_CHAR, LF>>
TypingOutcome(position) ==
    /\ inserted = TypingFragment
    /\ client_source = TypingDocument
    /\ document.source = TypingDocument
    /\ active_cursor_states[1].cursor = CursorDescription(position, TRUE, TRUE)

\* C17: in the scenario, after reconciliation and retry, the document is
\* "ZabcX" + glyph + "\n" with "X" inserted once, and the tracked cursor is
\* on the glyph, at (0,5)
C17_TypingBeforeCursor == TypingSettled => TypingOutcome(Position(0, 5))
C17_Witness == TypingSettled /\ pc = "blocked"
\* C17 as stated: the tracked cursor is at (0,6)
C17_TypingBeforeCursorAsStated == TypingSettled => TypingOutcome(Position(0, 6))

\* ------------------------------------------------------------ claims: SpecFold
\* the first cursor state before the last fold, its pending update, and the
\* transaction without the changes that the pending update accounts for
FoldedState == The(folded).before[1]
FoldedPending == The(FoldedState.pending_update)
TrailingChanges ==
    [The(folded).change EXCEPT !.content_changes =
        SubSeq(The(folded).change.content_changes, Len(FoldedPending.text_edits) + 1,
               Len(The(folded).change.content_changes))]
MergedFolded ==
    /\ folded # None
    /\ reconcile_branch(FoldedState, The(folded).change) = "content_match_prefix"
\* the scenario "merged transaction" was folded
MergedScenarioFolded ==
    /\ folded # None
    /\ The(folded).params = MergedScenario.params
    /\ The(folded).before = MergedScenario.states
    /\ The(folded).from_document = MergedScenario.document
MergedOutcome ==
    MergedFolded =>
        /\ FoldedPending.from_document_version = The(folded).change.from_document_version
        /\ FoldedPending.to_document_version # The(folded).change.to_document_version
        /\ active_cursor_states[1].pending_update = None
        /\ active_cursor_states[1].at_document_version = document.version
        /\ active_cursor_states[1].cursor.position =
               compute_updated_cursor_position(FoldedPending.cursor.position,
                   FoldedPending.cursor.has_cursor_char, FALSE, TrailingChanges)

\* C18: when the transaction starts at the version of the pending update,
\* ends at another and begins with the pending edits, the cursor state takes
\* the cursor of the pending update, drops the pending update, and only the
\* trailing changes are folded, against that cursor; in the scenario the
\* insert of "!" at (0,3) is behind the adopted cursor (0,1), which stays
C18_MergedTransaction ==
    /\ MergedOutcome
    /\ MergedScenarioFolded =>
           /\ MergedFolded
           /\ active_cursor_states[1].cursor.position = FoldedPending.cursor.position
C18_Witness == MergedScenarioFolded
\* trailing changes that move the adopted cursor
C18_WitnessMoved ==
    /\ MergedFolded
    /\ active_cursor_states[1].cursor.position # FoldedPending.cursor.position
\* C18 as stated: in the scenario the cursor is the adopted cursor advanced
\* by one character
C18_MergedTransactionAsStated ==
    /\ MergedOutcome
    /\ MergedScenarioFolded =>
           /\ MergedFolded
           /\ active_cursor_states[1].cursor.position =
                  Position(FoldedPending.cursor.position.line,
                           FoldedPending.cursor.position.character + 1)

\* the last fold was of one event that replaces the cursor glyph, on which the
\* single cursor state was, by "Y" and the glyph
GlyphPasteFolded ==
    /\ folded # None
    /\ Len(The(folded).before) = 1
    /\ FoldedState.pending_update = None
    /\ FoldedState.cursor.has_cursor_char
    /\ Len(The(folded).params.content_changes) = 1
    /\ LET event == The(folded).params.content_changes[1]
           pos == FoldedState.cursor.position
       IN  /\ event.text = <<"Y", CURSOR_CHAR>>
           /\ event.range = Range(pos, Position(pos.line, pos.character + 1))
\* the scenario: source "a" + glyph + "\n"
GlyphPasteScenarioFolded ==
    /\ GlyphPasteFolded
    /\ The(folded).from_document.source = <<"a", CURSOR_CHAR, LF>>

\* C20: when the client replaces the glyph the cursor is on by "Y" + glyph,
\* after the fold the tracked cursor is on the glyph in the new document, one
\* character further, and has_cursor_char is true; in the scenario the
\* document is "aY" + glyph + "\n" and the cursor is (0,2)
C20_GlyphPaste ==
    /\ GlyphPasteFolded =>
           LET pos == FoldedState.cursor.position
               cursor == active_cursor_states[1].cursor
           IN  /\ cursor.position = Position(pos.line, pos.character + 1)
               /\ cursor.has_cursor_char
               /\ Slice(document.source,
                        ClientIndex(document.source, cursor.position),
                        ClientIndex(document.source, cursor.position) + 1)
                      = <<CURSOR_CHAR>>
    /\ GlyphPasteScenarioFolded =>
           /\ document.source = <<"a", "Y", CURSOR_CHAR, LF>>
           /\ active_cursor_states[1].cursor = CursorDescription(Position(0, 2), TRUE, TRUE)
C20_Witness == GlyphPasteScenarioFolded

\* ------------------------------------------------------------ claims: SpecEdit
\* the step is try_insert_text that gets its snapshot from try_begin_edit
\* and is called with text (the loop does not call it at the end of the
\* stream without text), and the cursor it reads
InsertAttempt ==
    /\ pc = "insert"
    /\ ~(at_end /\ pending = <<>>)
    /\ try_begin_edit(active_cursor_states, document) = "ok"
EditCursor == active_cursor_states[1].cursor
\* the suffix that repairs the cursor
RepairSuffix ==
    IF EditCursor.has_cursor_char THEN <<>>
    ELSE IF EditCursor.has_eol THEN <<CURSOR_CHAR>>
    ELSE <<CURSOR_CHAR>> \o eol_sequence

\* C32: an attempt of try_insert_text with something to insert submits one
\* edit for the version of the cursor state: an insertion at the cursor of
\* the pending text, then the glyph if the cursor has none, then the
\* end-of-line sequence if the cursor has neither glyph nor end of line; the
\* cursor upon success is the cursor advanced over the pending text alone,
\* with the glyph, and with an end of line if the cursor had it or if one
\* is inserted
C32_InsertEdit ==
    [][InsertAttempt /\ pending \o RepairSuffix # <<>> =>
          /\ apply_edit_request' =
                 Some([version |-> active_cursor_states[1].at_document_version,
                       edits |-> <<TextEdit(Range(EditCursor.position, EditCursor.position),
                                            pending \o RepairSuffix)>>])
          /\ Len(active_cursor_states') = 2
          /\ The(active_cursor_states'[1].pending_update).cursor =
                 CursorDescription(
                     IF count_all(pending, LF) = 0
                     THEN Position(EditCursor.position.line,
                                   EditCursor.position.character + client_num_units(pending))
                     ELSE Position(EditCursor.position.line + count_all(pending, LF),
                                   client_num_units(last_line_of(pending))),
                     TRUE,
                     EditCursor.has_eol \/ ~EditCursor.has_cursor_char)]_vars
\* text of two lines with a character of two units was submitted at a cursor
\* that had neither glyph nor end of line, in a document with CR LF: the
\* cursor upon success is on the second line, two units in
C32_Witness ==
    /\ pc = "await_insert"
    /\ apply_edit_request # None
    /\ eol_sequence = <<CR, LF>>
    /\ The(apply_edit_request).edits[1].new_text = <<"x", LF, WIDE, CURSOR_CHAR, CR, LF>>
    /\ The(active_cursor_states[1].pending_update).cursor.position =
           Position(active_cursor_states[2].cursor.position.line + 1, 2)
\* text was submitted at a cursor with glyph and without end of line
C32_WitnessGlyph ==
    /\ pc = "await_insert"
    /\ apply_edit_request # None
    /\ The(apply_edit_request).edits[1].new_text = <<"x">>
    /\ The(active_cursor_states[1].pending_update).cursor.has_cursor_char
    /\ ~The(active_cursor_states[1].pending_update).cursor.has_eol

\* C33: try_insert_text called without text for a cursor that has its glyph
\* submits nothing, leaves the cursor states and the last known cursor
\* position as they are, and returns success: the loop clears its repair
\* flag and goes back to the queue
C33_NothingToInsert ==
    [][InsertAttempt /\ pending = <<>> /\ EditCursor.has_cursor_char =>
          /\ apply_edit_request' = apply_edit_request
          /\ active_cursor_states' = active_cursor_states
          /\ last_known_cursor_pos' = last_known_cursor_pos
          /\ document' = document
          /\ pending' = <<>>
          /\ ~repair_cursor'
          /\ pc' = "pull"]_vars
\* the loop is back at its top after such a call: nothing is submitted, the
\* repair flag is cleared and the queue is empty (the loop does not start in
\* such a state)
C33_Witness ==
    /\ pc = "pull"
    /\ queue = <<>>
    /\ ~repair_cursor
    /\ pending = <<>>
    /\ apply_edit_request = None
    /\ Len(active_cursor_states) = 1
    /\ active_cursor_states[1].pending_update = None
    /\ active_cursor_states[1].cursor.has_cursor_char

\* the step is try_remove_cursor_sequence that gets its snapshot from
\* try_begin_edit
RemoveAttempt ==
    /\ pc = "remove"
    /\ try_begin_edit(active_cursor_states, document) = "ok"
\* the range of the deletion and the number of characters it covers
RemovedRange ==
    Range(EditCursor.position,
          IF EditCursor.has_eol
          THEN Position(EditCursor.position.line + 1, 0)
          ELSE Position(EditCursor.position.line, EditCursor.position.character + 1))

\* C34: try_remove_cursor_sequence for a cursor without glyph submits
\* nothing and returns success; for a cursor with glyph it submits one
\* deletion that starts at the cursor and ends at the start of the next line
\* when the cursor has an end of line, one character further when it has
\* not: in the document that is the glyph, with the line feed behind it in
\* the first case; the cursor upon success is at the same position without
\* glyph and without end of line
C34_RemoveEdit ==
    [][RemoveAttempt =>
          IF ~EditCursor.has_cursor_char
          THEN /\ pc' = "done"
               /\ apply_edit_request' = apply_edit_request
               /\ active_cursor_states' = active_cursor_states
          ELSE /\ apply_edit_request' =
                      Some([version |-> active_cursor_states[1].at_document_version,
                            edits |-> <<TextEdit(RemovedRange, <<>>)>>])
               /\ The(active_cursor_states'[1].pending_update).cursor =
                      CursorDescription(EditCursor.position, FALSE, FALSE)
               /\ Slice(document.source,
                        ClientIndex(document.source, RemovedRange.start),
                        ClientIndex(document.source, RemovedRange.end))
                      = IF EditCursor.has_eol THEN <<CURSOR_CHAR, LF>> ELSE <<CURSOR_CHAR>>]_vars
\* a deletion of glyph and end of line is submitted
C34_Witness ==
    /\ pc = "await_remove"
    /\ apply_edit_request # None
    /\ The(apply_edit_request).edits[1].range.end
           = Position(active_cursor_states[2].cursor.position.line + 1, 0)
    /\ The(active_cursor_states[1].pending_update).cursor
           = CursorDescription(active_cursor_states[2].cursor.position, FALSE, FALSE)
\* a deletion of the glyph alone is submitted
C34_WitnessGlyph ==
    /\ pc = "await_remove"
    /\ apply_edit_request # None
    /\ The(apply_edit_request).edits[1].range.end.line
           = active_cursor_states[2].cursor.position.line
\* there is nothing to remove
C34_WitnessNothing ==
    /\ pc = "done"
    /\ apply_edit_request = None
    /\ ~active_cursor_states[1].cursor.has_cursor_char

\* ------------------------------------------------------------ claims: SpecRunStart
\* run has got past the detection of the end-of-line sequence
RunStarted == run_state # INITIALISED \/ run_raised

\* C21: a run started on any document gets an end-of-line sequence without
\* an exception: "\r\n" if the source contains "\r\n", else "\n" if it
\* contains "\n", else the line terminator of the host, "\n" or "\r\n"
C21_DetectEolSequence ==
    RunStarted =>
        /\ ~run_raised
        /\ run_state = RUNNING
        /\ contains_crlf(document.source) => eol_sequence = <<CR, LF>>
        /\ (~contains_crlf(document.source) /\ count_all(document.source, LF) > 0) =>
               eol_sequence = <<LF>>
        /\ eol_sequence \in {<<LF>>, <<CR, LF>>}

\* ------------------------------------------------------------ claims: SpecServer
\* the runs of a document that have begun and not ended
ActiveRuns(document_uri) ==
    {r \in 1..Len(prapti_runs) :
        /\ prapti_runs[r].document_uri = document_uri
        /\ prapti_runs[r].state \in {RUNNING, STOPPING}}
\* a run_prapti task of the document starts
TaskStarts(document_uri) ==
    run_prapti_tasks'[document_uri] = run_prapti_tasks[document_uri] - 1
\* a run of the document ends
RunEnds(document_uri) ==
    \E r \in ActiveRuns(document_uri) : prapti_runs'[r].state = STOPPED

\* C12: every document has at most one run that has begun and not ended, the
\* one in the active-run map, and it is the only observer registered for the
\* document; a run_prapti task that finds an entry for its document leaves
\* the map, the runs and the observers as they are; and the entry of a
\* document goes away in exactly the steps in which its run ends
C12_OneRunPerDocument ==
    [][\A document_uri \in DocumentURIs :
          /\ ActiveRuns(document_uri)' = _active_prapti_runs'[document_uri]
          /\ Cardinality(ActiveRuns(document_uri)') <= 1
          /\ Len(_observers'[document_uri]) = Cardinality(ActiveRuns(document_uri)')
          /\ \A i \in 1..Len(_observers'[document_uri]) :
                 _observers'[document_uri][i] \in ActiveRuns(document_uri)'
          /\ (TaskStarts(document_uri) /\ _active_prapti_runs[document_uri] # None) =>
                 UNCHANGED <<_active_prapti_runs, prapti_runs, _observers>>
          /\ (_active_prapti_runs[document_uri] # None
                  /\ _active_prapti_runs'[document_uri] = None)
                 <=> RunEnds(document_uri)]_vars
\* a second task has found the run of its document and returned, and a
\* stopPrapti has reached the run
C12_Witness ==
    \E document_uri \in DocumentURIs :
        /\ _active_prapti_runs[document_uri] # None
        /\ prapti_runs[The(_active_prapti_runs[document_uri])].state = STOPPING
        /\ run_prapti_tasks[document_uri] = 0
        /\ commands >= 3
        /\ Len(prapti_runs) = 1

\* the notification of the last fold is malformed: its version is not above
\* the version the document had, or its event lies outside that document
MalformedFolded ==
    /\ folded # None
    /\ \/ The(folded).params.version <= The(folded).from_document.version
       \/ \E k \in 1..Len(The(folded).params.content_changes) :
              The(folded).params.content_changes[k].range.start.line
                  > count_all(The(folded).from_document.source, LF)

\* C22: a malformed didChange is rejected as a whole: the document, the
\* cursor states and their versions stay as they were, and nothing is
\* delivered to the inserter
C22_MalformedRejected ==
    MalformedFolded =>
        /\ document = The(folded).from_document
        /\ active_cursor_states = The(folded).before
        /\ queue = <<>>

\* the pending update of a cursor state starts at the version the
\* transaction starts at, ends at another, and the transaction does not
\* begin with its text edits
ContentMismatch(cursor_state, change) ==
    /\ cursor_state.pending_update # None
    /\ The(cursor_state.pending_update).from_document_version = change.from_document_version
    /\ The(cursor_state.pending_update).to_document_version # change.to_document_version
    /\ ~change_startswith_edits(change, The(cursor_state.pending_update).text_edits)
\* the hint that the fold of a mismatched state is given
ExpectedRepair(cursor_state) ==
    /\ ~cursor_state.cursor.has_cursor_char
    /\ The(cursor_state.pending_update).cursor.has_cursor_char

\* C24: on a content mismatch the cursor state loses its pending update and
\* its position is that of its own cursor (not the pending one) folded
\* through every change of the transaction, with expect_cursor_char_repair
\* true exactly when the cursor had no glyph and the cursor of the pending
\* update has one
C24_ContentMismatch ==
    folded # None =>
        \A i \in 1..Len(The(folded).before) :
            ContentMismatch(The(folded).before[i], The(folded).change) =>
                /\ active_cursor_states[i].pending_update = None
                /\ active_cursor_states[i].at_document_version
                       = The(folded).change.to_document_version
                /\ active_cursor_states[i].cursor.position =
                       compute_updated_cursor_position(
                           The(folded).before[i].cursor.position,
                           The(folded).before[i].cursor.has_cursor_char,
                           ExpectedRepair(The(folded).before[i]),
                           The(folded).change)
\* a mismatch in which the hint decides where the cursor is
C24_Witness ==
    /\ folded # None
    /\ ContentMismatch(FoldedState, The(folded).change)
    /\ ExpectedRepair(FoldedState)
    /\ Len(The(folded).change.content_changes) = 2
    /\ active_cursor_states[1].pending_update = None
    /\ active_cursor_states[1].cursor.position #
           compute_updated_cursor_position(FoldedState.cursor.position,
               FoldedState.cursor.has_cursor_char, FALSE, The(folded).change)
\* a mismatch of a cursor that had the glyph: no hint
C24_WitnessNoHint ==
    /\ folded # None
    /\ ContentMismatch(FoldedState, The(folded).change)
    /\ ~ExpectedRepair(FoldedState)
    /\ active_cursor_states[1].cursor.position # FoldedState.cursor.position

\* the last fold was of a transaction of one change against a single cursor
\* state without pending update; the change as the tracker reads it, and the
\* state the loop of compute_updated_cursor_position starts from
SingleChangeFolded ==
    /\ folded # None
    /\ Len(The(folded).before) = 1
    /\ FoldedState.pending_update = None
    /\ Len(The(folded).change.content_changes) = 1
FoldedChange == The(folded).change.content_changes[1].minimal_change_event
FoldedPos == FoldedState.cursor.position
Straddles(range_, pos) == PosLT(range_.start, pos) /\ PosLT(pos, range_.end)
OneCursorChar(text) == count_all(text, CURSOR_CHAR) = 1

\* C25: when one change straddles the cursor, the cursor had the glyph and
\* the text of the change has exactly one glyph, the cursor is put where that
\* glyph is in the new text and has_cursor_char stays true
C25_StraddleKeepsGlyph ==
    /\ SingleChangeFolded
    /\ Straddles(FoldedChange.range, FoldedPos)
    /\ FoldedState.cursor.has_cursor_char
    /\ OneCursorChar(FoldedChange.text)
    => /\ active_cursor_states[1].cursor.position
              = glyph_position(FoldedChange.range.start, FoldedChange.text)
       /\ active_cursor_states[1].cursor.has_cursor_char

\* the last fold was of a transaction of one change that does not begin
\* with the pending edits of the cursor state, a state whose cursor had no
\* glyph: the loop starts with expect_cursor_char_repair true
ExpectedRepairFolded ==
    /\ folded # None
    /\ ContentMismatch(FoldedState, The(folded).change)
    /\ ExpectedRepair(FoldedState)
    /\ Len(The(folded).change.content_changes) = 1
FoldStart(have_cursor_char, expect_cursor_char_repair) ==
    [pos |-> FoldedPos, have_cursor_char |-> have_cursor_char,
     expect_cursor_char_repair |-> expect_cursor_char_repair]

\* C26: when one change straddles the cursor, a cursor repair is expected
\* and the text of the change has exactly one glyph, the cursor is put where
\* that glyph is in the new text and the repair is no longer expected
C26_StraddleRepairs ==
    /\ ExpectedRepairFolded
    /\ Straddles(FoldedChange.range, FoldedPos)
    /\ OneCursorChar(FoldedChange.text)
    => /\ active_cursor_states[1].cursor.position
              = glyph_position(FoldedChange.range.start, FoldedChange.text)
       /\ ~fold_change(FoldStart(FALSE, TRUE), FoldedChange).expect_cursor_char_repair

\* the last fold was of one change, by compute_updated_cursor_position
\* started at the cursor of the first cursor state; the flags it started with
OneChangeFolded ==
    /\ folded # None
    /\ Len(The(folded).change.content_changes) = 1
    /\ \/ FoldedState.pending_update = None
       \/ ContentMismatch(FoldedState, The(folded).change)
FoldedHave == FoldedState.cursor.has_cursor_char
FoldedExpect == FoldedState.pending_update # None /\ ExpectedRepair(FoldedState)
\* neither of the two heuristics that look for a glyph in the text applies
NoGlyphHeuristic ==
    \/ ~OneCursorChar(FoldedChange.text)
    \/ (~FoldedHave /\ ~FoldedExpect)

\* C27: when one change straddles the cursor and is a pure deletion, or no
\* glyph heuristic applies to it, the cursor is put at the start of the range
\* and the loop goes on with have_cursor_char false
C27_StraddleSnapsToStart ==
    /\ OneChangeFolded
    /\ Straddles(FoldedChange.range, FoldedPos)
    /\ (Len(FoldedChange.text) = 0 \/ NoGlyphHeuristic)
    => /\ active_cursor_states[1].cursor.position = FoldedChange.range.start
       /\ ~fold_change(FoldStart(FoldedHave, FoldedExpect), FoldedChange).have_cursor_char
\* a deletion that takes the glyph and text on either side of it
C27_Witness ==
    /\ OneChangeFolded
    /\ Straddles(FoldedChange.range, FoldedPos)
    /\ Len(FoldedChange.text) = 0
    /\ FoldedHave
    /\ active_cursor_states[1].cursor.position = FoldedChange.range.start
    /\ ~active_cursor_states[1].cursor.has_cursor_char
\* a replacement by text without glyph
C27_WitnessFallback ==
    /\ OneChangeFolded
    /\ Straddles(FoldedChange.range, FoldedPos)
    /\ FoldedChange.text = <<"Y">>
    /\ FoldedHave
    /\ active_cursor_states[1].cursor.position = FoldedChange.range.start

\* the one change of the last fold ends on the line of the cursor at exactly
\* its character, a repair is expected and the text has one glyph
LateRepairFolded ==
    /\ ExpectedRepairFolded
    /\ FoldedChange.range.end = FoldedPos
    /\ OneCursorChar(FoldedChange.text)
\* the same for the first change of a transaction of two
LateRepairThenChange ==
    /\ folded # None
    /\ ContentMismatch(FoldedState, The(folded).change)
    /\ ExpectedRepair(FoldedState)
    /\ Len(The(folded).change.content_changes) = 2
    /\ FoldedChange.range.end = FoldedPos
    /\ OneCursorChar(FoldedChange.text)
SecondChange == The(folded).change.content_changes[2].minimal_change_event
AfterLateRepair ==
    [pos |-> glyph_position(FoldedChange.range.start, FoldedChange.text),
     have_cursor_char |-> TRUE, expect_cursor_char_repair |-> FALSE]

\* C28: when a change ends at the cursor, a repair is expected and the text
\* has exactly one glyph, the cursor is put where that glyph is in the new
\* text, not behind the text; a second change of the transaction is folded
\* from there without the special case
C28_LateCursorRepair ==
    /\ LateRepairFolded =>
           /\ active_cursor_states[1].cursor.position
                  = glyph_position(FoldedChange.range.start, FoldedChange.text)
           /\ active_cursor_states[1].cursor.has_cursor_char
    /\ LateRepairThenChange =>
           active_cursor_states[1].cursor.position
               = fold_change(AfterLateRepair, SecondChange).pos
\* the glyph is not the last character of the text: the cursor is not behind
\* the text
C28_Witness ==
    /\ LateRepairFolded
    /\ FoldedChange.text = <<"Y", "H", CURSOR_CHAR, LF>>
    /\ active_cursor_states[1].cursor.position
           = Position(FoldedPos.line, FoldedPos.character + 2)
\* a second change that ends at the repaired cursor and has one glyph: the
\* cursor is shifted behind its text
C28_WitnessSecond ==
    /\ LateRepairThenChange
    /\ SecondChange.range.end = AfterLateRepair.pos
    /\ OneCursorChar(SecondChange.text)
    /\ active_cursor_states[1].cursor.position
           # glyph_position(SecondChange.range.start, SecondChange.text)

\* the one change of the last fold ends at or before the cursor, and is not
\* taken for a late cursor repair
ChangeBeforeCursor ==
    /\ OneChangeFolded
    /\ PosLE(FoldedChange.range.end, FoldedPos)
    /\ ~(/\ FoldedExpect
         /\ FoldedChange.range.end = FoldedPos
         /\ OneCursorChar(FoldedChange.text))
\* offsets into the text before the change and the number of characters the
\* change replaces
OldSource == The(folded).from_document.source
ReplacedLength ==
    ClientIndex(OldSource, FoldedChange.range.end)
        - ClientIndex(OldSource, FoldedChange.range.start)

\* C29: after a change that ends at or before the cursor, the cursor is at
\* the offset it was at plus the length of the text of the change minus the
\* length of the text replaced, and the position is the one the document
\* gives for that offset
C29_ShiftKeepsCharacter ==
    ChangeBeforeCursor =>
        /\ ClientIndex(document.source, active_cursor_states[1].cursor.position)
               = ClientIndex(OldSource, FoldedPos)
                     + Len(FoldedChange.text) - ReplacedLength
        /\ active_cursor_states[1].cursor.position
               = client_pos_from_index(document.source,
                     ClientIndex(OldSource, FoldedPos)
                         + Len(FoldedChange.text) - ReplacedLength)
\* a range of several lines replaced by a text of several lines, ending on
\* the line of the cursor
C29_Witness ==
    /\ ChangeBeforeCursor
    /\ FoldedChange.range.start.line < FoldedChange.range.end.line
    /\ FoldedChange.range.end.line = FoldedPos.line
    /\ count_all(FoldedChange.text, LF) > 0
    /\ active_cursor_states[1].cursor.position # FoldedPos
\* a change that ends on a line before the line of the cursor
C29_WitnessPriorLine ==
    /\ ChangeBeforeCursor
    /\ FoldedChange.range.end.line < FoldedPos.line
    /\ active_cursor_states[1].cursor.position.line > FoldedPos.line

\* the one change of the last fold starts at or after the cursor and ends
\* strictly after it
ChangeAfterCursor ==
    /\ OneChangeFolded
    /\ PosLE(FoldedPos, FoldedChange.range.start)
    /\ PosLT(FoldedPos, FoldedChange.range.end)

\* C30: a change that starts at or after the cursor and ends strictly after
\* it leaves the position of the cursor as it was
C30_ChangeAfterCursor ==
    ChangeAfterCursor => active_cursor_states[1].cursor.position = FoldedPos
\* a change after the cursor that adds a line and takes the glyph at the
\* cursor away: the flags are derived anew, the position stays
C30_Witness ==
    /\ ChangeAfterCursor
    /\ count_all(FoldedChange.text, LF) > 0
    /\ FoldedChange.range.start = FoldedPos
    /\ FoldedState.cursor.has_cursor_char
    /\ ~active_cursor_states[1].cursor.has_cursor_char
    /\ active_cursor_states[1].cursor.position = FoldedPos

\* the one change of the last fold is an insertion exactly at the cursor
InsertionAtCursor ==
    /\ OneChangeFolded
    /\ FoldedChange.range.start = FoldedPos
    /\ FoldedChange.range.end = FoldedPos
\* the insertion is taken for the late repair of the cursor
TakenForRepair == FoldedExpect /\ OneCursorChar(FoldedChange.text)
\* the cursor is behind the inserted text: at the position behind it, which
\* in the document is the offset of the old position plus the length of the
\* text, with the text right before it
CursorBehindInsertedText ==
    LET text == FoldedChange.text
        position == active_cursor_states[1].cursor.position
        index == ClientIndex(OldSource, FoldedPos) + Len(text)
    IN  /\ position =
               IF count_all(text, LF) > 0
               THEN Position(FoldedPos.line + count_all(text, LF),
                             client_num_units(last_line_of(text)))
               ELSE Position(FoldedPos.line, FoldedPos.character + client_num_units(text))
        /\ ClientIndex(document.source, position) = index
        /\ Slice(document.source, index - Len(text), index) = text

\* C40: an insertion exactly at the cursor moves the cursor behind the
\* inserted text, which is then before the cursor in the document; unless a
\* cursor repair is expected and the text has exactly one glyph, when the
\* cursor is put on that glyph
C40_InsertionAtCursor ==
    InsertionAtCursor =>
        IF TakenForRepair
        THEN active_cursor_states[1].cursor.position
                 = glyph_position(FoldedPos, FoldedChange.text)
        ELSE CursorBehindInsertedText
\* the user types "Y" at a cursor that has the glyph: "Y" is before the
\* glyph and the cursor is on the glyph
C40_Witness ==
    /\ InsertionAtCursor
    /\ ~TakenForRepair
    /\ FoldedHave
    /\ FoldedChange.text = <<"Y">>
    /\ active_cursor_states[1].cursor.has_cursor_char
    /\ active_cursor_states[1].cursor.position
           = Position(FoldedPos.line, FoldedPos.character + 1)
\* an insertion of text with a glyph in its middle, taken for the repair
C40_WitnessRepair ==
    /\ InsertionAtCursor
    /\ TakenForRepair
    /\ ~CursorBehindInsertedText
\* C40 as stated: every insertion exactly at the cursor moves the cursor
\* behind the inserted text
C40_InsertionAtCursorAsStated == InsertionAtCursor => CursorBehindInsertedText

\* ------------------------------------------------------------ claims: SpecDiff
\* the changes recorded of the notification
DxChanges == IF dx_out = None THEN <<>> ELSE The(dx_out).change_transaction.content_changes

\* C5: for every recorded change that came from a full-document replacement
\* or from a ranged replacement (non-empty range, non-empty text), the minimal
\* change event has start <= end and replacing its range of the pre-text by its
\* text yields the post-text
C5_MinimalEventYieldsPost ==
    \A k \in 1..Len(DxChanges) :
        LET d == DxChanges[k]
            o == d.original_change_event
            m == d.minimal_change_event
        IN  (o.type = 2 \/ (o.range.start # o.range.end /\ o.text # <<>>)) =>
                /\ PosLE(m.range.start, m.range.end)
                /\ apply_change(d.from_text, m) = d.to_text

\* length of the longest common prefix of a and b among their first n characters
CommonPrefix(a, b, n) ==
    SetMax({k \in 0..n : SubSeq(a, 1, k) = SubSeq(b, 1, k)})
\* length of the longest common suffix of a and b among their last n characters
CommonSuffix(a, b, n) ==
    SetMax({k \in 0..n : SubSeq(a, Len(a) - k + 1, Len(a)) = SubSeq(b, Len(b) - k + 1, Len(b))})
\* the difference that leaves out a common prefix of p and a common suffix of q characters
DifferenceBetween(a, b, p, q) == << <<p, Len(a) - q>>, <<p, Len(b) - q>> >>

\* C6: the difference of (pre, post) is minimal: both ranges start at the end
\* of the longest common prefix and end at the start of the longest common
\* suffix, the two not overlapping (the prefix is the longest and the suffix
\* the longest within what the prefix leaves, or the other way round), and two
\* non-empty sides differ in their first and last characters
C6_DifferenceIsMinimal ==
    dx_diff # None =>
        LET a == dx_document.source
            b == The(dx_out).document.source
            result == The(dx_diff)[1]
            min_len == Min(Len(a), Len(b))
            p == CommonPrefix(a, b, min_len)
            q == CommonSuffix(a, b, min_len)
            a_diff == Slice(a, result[1][1], result[1][2])
            b_diff == Slice(b, result[2][1], result[2][2])
        IN  /\ \/ result = DifferenceBetween(a, b, p, CommonSuffix(a, b, min_len - p))
               \/ result = DifferenceBetween(a, b, CommonPrefix(a, b, min_len - q), q)
            /\ (Len(a_diff) > 0 /\ Len(b_diff) > 0) =>
                   /\ a_diff[1] # b_diff[1]
                   /\ a_diff[Len(a_diff)] # b_diff[Len(b_diff)]

\* C7: the difference of (a, b) is (ra, rb) exactly when the difference of
\* (b, a) is (rb, ra)
C7_DifferenceIsSymmetric ==
    dx_diff # None =>
        LET result == The(dx_diff)[1]
            result_ == The(dx_diff)[2]
        IN  result = <<result_[2], result_[1]>>

\* a difference computed by the two searches from the ends, of texts of
\* different lengths, and one computed by a prefix or suffix short cut
C7_Witness ==
    /\ dx_diff # None
    /\ Len(dx_document.source) > Len(The(dx_out).document.source)
    /\ LET result == The(dx_diff)[1]
       IN  /\ result[1][1] > 0
           /\ result[1][2] > result[1][1]
           /\ result[2][2] > result[2][1]
           /\ result[1][2] < Len(dx_document.source)

====
